---- MODULE Spec2Model ----
(***************************************************************************)
(* Output/ledger reconciliation, cancellation and coinbase construction of *)
(* the wallet (libwallet/src/internal/updater.rs), over a key-value wallet *)
(* backend and a node that may answer anything.                            *)
(***************************************************************************)
EXTENDS Integers, Sequences, FiniteSets, TLC

\* ---------------------------------------------------------------- bounds
\* derivation children next_available_key may hand out per account
MaxChild == 2
\* operations (refresh, cancel, build, receive, send) started in one behaviour
MaxOps == 2

\* ------------------------------------------------------- program constants
\* clean_old_unconfirmed: `height < 50`, `height - 50`
CleanupAge == 50
\* global::coinbase_maturity() of the automated-testing chain
CoinbaseMaturity == 3
\* consensus::reward(fees, height) = block subsidy + fees
BlockSubsidy == 10
\* consensus::cumulative_reward_foundation(height)
FoundationReward == 4

\* ------------------------------------------------------------ input sets
Accounts == {"A", "B"}
\* the account the caller reconciles and transacts on; B only mines
Spending == {"A"}
\* Option: None and Some(x)
None == <<>>
Some(x) == <<x>>
KeyIds == Accounts \X (0 .. MaxChild - 1)
\* key identifiers a reward request may pre-select: the first key of an account
PreSelected == Accounts \X {0}
\* heights get_chain_tip may answer
TipHeights == {5, 55, 56, 57}
\* heights get_outputs_from_node may attach to a reported commitment
ReportHeights == {5}
\* BlockFees.height / BlockFees.fees of a reward request
BuildHeights == {0, 5}
Fees == {1}
\* amount and height of a received slate
SlateAmounts == {7}
SlateHeights == {5}

VARIABLES
    outputs,                 \* output table: key_id -> OutputData
    tx_log,                  \* tx log table: <<parent_key_id, id>> -> TxLogEntry
    last_confirmed_height,   \* per account
    tx_log_id,               \* per account: next transaction-log id
    child_index,             \* per account: next derivation child
    refresh,                 \* the refresh_outputs call in flight
    cancel,                  \* the cancel call in flight
    build,                   \* the build_coinbase / build_foundation call in flight
    returned,                \* what the call that returned last answered
    ops                      \* operations started so far (also the wall clock)

ledger == <<outputs, tx_log, last_confirmed_height, tx_log_id>>
vars == <<outputs, tx_log, last_confirmed_height, tx_log_id, child_index,
          refresh, cancel, build, returned, ops>>

\* ------------------------------------------------------------ primitives
\* keychain.commit(value, key_id, SwitchCommitmentType::Regular)
Commit(value, key_id) == <<"commit", key_id, value>>

\* secp.commit_sum(vec![commit], vec![secp.commit_value(value)])
KernelExcess(commit, value) == <<"excess", commit, value>>

\* the stored commitment when present, else the derived one
OutputCommit(o) ==
    IF o.commit # None THEN o.commit[1] ELSE Commit(o.value, o.key_id)

\* wallet.iter()
WalletIter(outs) == {outs[k] : k \in DOMAIN outs}

\* all orders in which a HashMap may iterate over the set S
Perms(S) ==
    {f \in [1 .. Cardinality(S) -> S] : \A x \in S : \E i \in DOMAIN f : f[i] = x}

\* ------------------------------------------------------------ data model
Statuses == {"Unconfirmed", "Unspent", "Locked", "Spent", "Deleted"}

\* TxLogEntry::new(parent_key_id, tx_type, id), created at time now
NewTxLogEntry(parent_key_id, tx_type, id, now) ==
    [parent_key_id |-> parent_key_id, id |-> id, tx_slate_id |-> None,
     tx_type |-> tx_type, creation_ts |-> now, confirmation_ts |-> None,
     confirmed |-> FALSE, num_inputs |-> 0, num_outputs |-> 0,
     amount_credited |-> 0, amount_debited |-> 0,
     kernel_excess |-> None, kernel_lookup_min_height |-> None]

\* OutputData::mark_unspent: confirmation turns an Unconfirmed output Unspent;
\* Locked goes back to Unspent on cancellation only
mark_unspent(o) ==
    IF o.status = "Unconfirmed" THEN [o EXCEPT !.status = "Unspent"] ELSE o

\* OutputData::mark_spent: an output the node no longer reports is Spent
mark_spent(o) ==
    IF o.status \in {"Unspent", "Unconfirmed", "Locked"}
    THEN [o EXCEPT !.status = "Spent"] ELSE o

\* ------------------------------------------------------- backend (batch)
\* batch.save(out): the record of out.key_id is replaced
BatchSave(outs, o) ==
    [k \in DOMAIN outs \cup {o.key_id} |-> IF k = o.key_id THEN o ELSE outs[k]]

\* batch.delete(id, mmr_index, tx_id): the record of id is erased
BatchDelete(outs, id) ==
    [k \in DOMAIN outs \ {id} |-> outs[k]]

\* batch.save_tx_log_entry(t, parent_key_id): stored under (parent_key_id, t.id)
SaveTxLogEntry(txs, t, parent_key_id) ==
    [k \in DOMAIN txs \cup {<<parent_key_id, t.id>>} |->
        IF k = <<parent_key_id, t.id>> THEN t ELSE txs[k]]

\* wallet.tx_log_iter()
TxLogIter(txs) == {txs[k] : k \in DOMAIN txs}

\* ------------------------------------------------------------- retrieval
\* faulty variant: outstanding_only looks at the confirmed flag alone
retrieve_txs_AnyType(txs, tx_id, tx_slate_id, parent_key_id, outstanding_only) ==
    {tx_entry \in TxLogIter(txs) :
        /\ parent_key_id # None => tx_entry.parent_key_id = parent_key_id[1]
        /\ tx_id # None => tx_entry.id = tx_id[1]
        /\ tx_slate_id # None => tx_entry.tx_slate_id = tx_slate_id
        /\ outstanding_only => ~tx_entry.confirmed}

\* retrieve_txs: the entries that pass every supplied filter
retrieve_txs(txs, tx_id, tx_slate_id, parent_key_id, outstanding_only) ==
    {tx_entry \in TxLogIter(txs) :
        /\ parent_key_id # None => tx_entry.parent_key_id = parent_key_id[1]
        /\ tx_id # None => tx_entry.id = tx_id[1]
        /\ tx_slate_id # None => tx_entry.tx_slate_id = tx_slate_id
        /\ outstanding_only =>
              /\ ~tx_entry.confirmed
              /\ tx_entry.tx_type \in {"TxReceived", "TxSent"}}

\* retrieve_outputs without history: the OutputData of the mappings returned
retrieve_outputs(outs, show_spent, tx_id, parent_key_id) ==
    {out \in WalletIter(outs) :
        /\ show_spent \/ out.status # "Spent"
        /\ tx_id # None => out.tx_log_entry = tx_id
        /\ parent_key_id # None => out.root_key_id = parent_key_id[1]}

\* faulty variant: Spent outputs of the account are candidates too
map_wallet_outputs_WithSpent(outs, txs, parent_key_id, update_all) ==
    LET unspents == {x \in WalletIter(outs) : x.root_key_id = parent_key_id}
        tx_entries == retrieve_txs(txs, None, None, Some(parent_key_id), TRUE)
        selected == IF update_all THEN unspents
                    ELSE {x \in unspents :
                            IF x.tx_log_entry # None
                            THEN \E te \in tx_entries : te.id = x.tx_log_entry[1]
                            ELSE TRUE}
    IN  [c \in {OutputCommit(x) : x \in selected} |->
            (CHOOSE x \in selected : OutputCommit(x) = c).key_id]

\* faulty variant: update_all is not looked at, every output of the account
\* that is not Spent is a candidate
map_wallet_outputs_AllUnspents(outs, txs, parent_key_id, update_all) ==
    LET unspents == {x \in WalletIter(outs) :
                        x.root_key_id = parent_key_id /\ x.status # "Spent"}
    IN  [c \in {OutputCommit(x) : x \in unspents} |->
            (CHOOSE x \in unspents : OutputCommit(x) = c).key_id]

\* map_wallet_outputs: commitment -> key_id of the outputs to ask the node for
map_wallet_outputs(outs, txs, parent_key_id, update_all) ==
    LET unspents == {x \in WalletIter(outs) :
                        x.root_key_id = parent_key_id /\ x.status # "Spent"}
        tx_entries == retrieve_txs(txs, None, None, Some(parent_key_id), TRUE)
        selected == IF update_all THEN unspents
                    ELSE {x \in unspents :
                            IF x.tx_log_entry # None
                            THEN \E te \in tx_entries : te.id = x.tx_log_entry[1]
                            ELSE TRUE}
    IN  [c \in {OutputCommit(x) : x \in selected} |->
            (CHOOSE x \in selected : OutputCommit(x) = c).key_id]

\* ---------------------------------------------------------- apply step
\* faulty variant: the record of a candidate is not read again inside the
\* batch; one that is no longer in the wallet is written back from what the
\* pass knows of it, its key identifier and its commitment
ApplyOne_WritesBack(b, commit, id, api_outputs, height, parent_key_id, now) ==
    IF id \in DOMAIN b.outputs THEN b
    ELSE [b EXCEPT !.outputs = BatchSave(b.outputs,
            [root_key_id |-> parent_key_id, key_id |-> id, n_child |-> id[2],
             mmr_index |-> None, commit |-> Some(commit), value |-> commit[3],
             status |-> IF commit \in DOMAIN api_outputs THEN "Unspent" ELSE "Spent",
             height |-> IF commit \in DOMAIN api_outputs
                        THEN api_outputs[commit] ELSE 0,
             lock_height |-> 0, is_coinbase |-> FALSE, tx_log_entry |-> None])]

\* faulty variant: a reported coinbase output is logged as newly confirmed
\* whatever its status
ApplyOne_ReconfirmCoinbase(b, commit, id, api_outputs, height, parent_key_id, now) ==
    IF id \notin DOMAIN b.outputs THEN b
    ELSE
    LET output == b.outputs[id] IN
    IF commit \in DOMAIN api_outputs
    THEN
        LET first_cb == output.is_coinbase
            first_tx == ~output.is_coinbase /\ output.status = "Unconfirmed"
            log_id == b.tx_log_id[parent_key_id]
            t == [NewTxLogEntry(parent_key_id, "ConfirmedCoinbase", log_id, now)
                    EXCEPT !.confirmed = TRUE,
                           !.amount_credited = output.value,
                           !.amount_debited = 0,
                           !.num_outputs = 1,
                           !.kernel_excess = Some(KernelExcess(commit, output.value)),
                           !.kernel_lookup_min_height = Some(height),
                           !.confirmation_ts = Some(now)]
            found == {e \in TxLogIter(b.tx_log) :
                        Some(e.id) = output.tx_log_entry
                        /\ e.parent_key_id = parent_key_id}
            txs1 == IF first_cb THEN SaveTxLogEntry(b.tx_log, t, parent_key_id)
                    ELSE IF first_tx /\ found # {}
                    THEN SaveTxLogEntry(b.tx_log,
                            [(CHOOSE e \in found : TRUE)
                                EXCEPT !.confirmation_ts = Some(now), !.confirmed = TRUE],
                            parent_key_id)
                    ELSE b.tx_log
            out1 == IF first_cb THEN [output EXCEPT !.tx_log_entry = Some(log_id)]
                    ELSE output
            out2 == mark_unspent([out1 EXCEPT !.height = api_outputs[commit]])
        IN  [outputs |-> BatchSave(b.outputs, out2),
             tx_log |-> txs1,
             tx_log_id |-> IF first_cb
                           THEN [b.tx_log_id EXCEPT ![parent_key_id] = log_id + 1]
                           ELSE b.tx_log_id]
    ELSE [b EXCEPT !.outputs = BatchSave(b.outputs, mark_spent(output))]

\* faulty variant: the log id counter is not advanced
ApplyOne_SameLogId(b, commit, id, api_outputs, height, parent_key_id, now) ==
    IF id \notin DOMAIN b.outputs THEN b
    ELSE
    LET output == b.outputs[id] IN
    IF commit \in DOMAIN api_outputs
    THEN
        LET first_cb == output.is_coinbase /\ output.status = "Unconfirmed"
            first_tx == ~output.is_coinbase /\ output.status = "Unconfirmed"
            log_id == b.tx_log_id[parent_key_id]
            t == [NewTxLogEntry(parent_key_id, "ConfirmedCoinbase", log_id, now)
                    EXCEPT !.confirmed = TRUE,
                           !.amount_credited = output.value,
                           !.amount_debited = 0,
                           !.num_outputs = 1,
                           !.kernel_excess = Some(KernelExcess(commit, output.value)),
                           !.kernel_lookup_min_height = Some(height),
                           !.confirmation_ts = Some(now)]
            found == {e \in TxLogIter(b.tx_log) :
                        Some(e.id) = output.tx_log_entry
                        /\ e.parent_key_id = parent_key_id}
            txs1 == IF first_cb THEN SaveTxLogEntry(b.tx_log, t, parent_key_id)
                    ELSE IF first_tx /\ found # {}
                    THEN SaveTxLogEntry(b.tx_log,
                            [(CHOOSE e \in found : TRUE)
                                EXCEPT !.confirmation_ts = Some(now), !.confirmed = TRUE],
                            parent_key_id)
                    ELSE b.tx_log
            out1 == IF first_cb THEN [output EXCEPT !.tx_log_entry = Some(log_id)]
                    ELSE output
            out2 == mark_unspent([out1 EXCEPT !.height = api_outputs[commit]])
        IN  [outputs |-> BatchSave(b.outputs, out2),
             tx_log |-> txs1,
             tx_log_id |-> b.tx_log_id]
    ELSE [b EXCEPT !.outputs = BatchSave(b.outputs, mark_spent(output))]

\* faulty variant: the height the node reports is not recorded
ApplyOne_KeepsHeight(b, commit, id, api_outputs, height, parent_key_id, now) ==
    IF id \notin DOMAIN b.outputs THEN b
    ELSE
    LET output == b.outputs[id] IN
    IF commit \in DOMAIN api_outputs
    THEN
        LET first_cb == output.is_coinbase /\ output.status = "Unconfirmed"
            first_tx == ~output.is_coinbase /\ output.status = "Unconfirmed"
            log_id == b.tx_log_id[parent_key_id]
            t == [NewTxLogEntry(parent_key_id, "ConfirmedCoinbase", log_id, now)
                    EXCEPT !.confirmed = TRUE,
                           !.amount_credited = output.value,
                           !.amount_debited = 0,
                           !.num_outputs = 1,
                           !.kernel_excess = Some(KernelExcess(commit, output.value)),
                           !.kernel_lookup_min_height = Some(height),
                           !.confirmation_ts = Some(now)]
            found == {e \in TxLogIter(b.tx_log) :
                        Some(e.id) = output.tx_log_entry
                        /\ e.parent_key_id = parent_key_id}
            txs1 == IF first_cb THEN SaveTxLogEntry(b.tx_log, t, parent_key_id)
                    ELSE IF first_tx /\ found # {}
                    THEN SaveTxLogEntry(b.tx_log,
                            [(CHOOSE e \in found : TRUE)
                                EXCEPT !.confirmation_ts = Some(now), !.confirmed = TRUE],
                            parent_key_id)
                    ELSE b.tx_log
            out1 == IF first_cb THEN [output EXCEPT !.tx_log_entry = Some(log_id)]
                    ELSE output
            out2 == mark_unspent(out1)
        IN  [outputs |-> BatchSave(b.outputs, out2),
             tx_log |-> txs1,
             tx_log_id |-> IF first_cb
                           THEN [b.tx_log_id EXCEPT ![parent_key_id] = log_id + 1]
                           ELSE b.tx_log_id]
    ELSE [b EXCEPT !.outputs = BatchSave(b.outputs, mark_spent(output))]

\* faulty variant: an output the node does not report is left as it is
ApplyOne_UnreportedKept(b, commit, id, api_outputs, height, parent_key_id, now) ==
    IF id \notin DOMAIN b.outputs THEN b
    ELSE
    LET output == b.outputs[id] IN
    IF commit \in DOMAIN api_outputs
    THEN
        LET first_cb == output.is_coinbase /\ output.status = "Unconfirmed"
            first_tx == ~output.is_coinbase /\ output.status = "Unconfirmed"
            log_id == b.tx_log_id[parent_key_id]
            t == [NewTxLogEntry(parent_key_id, "ConfirmedCoinbase", log_id, now)
                    EXCEPT !.confirmed = TRUE,
                           !.amount_credited = output.value,
                           !.amount_debited = 0,
                           !.num_outputs = 1,
                           !.kernel_excess = Some(KernelExcess(commit, output.value)),
                           !.kernel_lookup_min_height = Some(height),
                           !.confirmation_ts = Some(now)]
            found == {e \in TxLogIter(b.tx_log) :
                        Some(e.id) = output.tx_log_entry
                        /\ e.parent_key_id = parent_key_id}
            txs1 == IF first_cb THEN SaveTxLogEntry(b.tx_log, t, parent_key_id)
                    ELSE IF first_tx /\ found # {}
                    THEN SaveTxLogEntry(b.tx_log,
                            [(CHOOSE e \in found : TRUE)
                                EXCEPT !.confirmation_ts = Some(now), !.confirmed = TRUE],
                            parent_key_id)
                    ELSE b.tx_log
            out1 == IF first_cb THEN [output EXCEPT !.tx_log_entry = Some(log_id)]
                    ELSE output
            out2 == mark_unspent([out1 EXCEPT !.height = api_outputs[commit]])
        IN  [outputs |-> BatchSave(b.outputs, out2),
             tx_log |-> txs1,
             tx_log_id |-> IF first_cb
                           THEN [b.tx_log_id EXCEPT ![parent_key_id] = log_id + 1]
                           ELSE b.tx_log_id]
    ELSE b

\* faulty variant: a reported output is made Unspent whatever its status
ApplyOne_ForcesUnspent(b, commit, id, api_outputs, height, parent_key_id, now) ==
    IF id \notin DOMAIN b.outputs THEN b
    ELSE
    LET output == b.outputs[id] IN
    IF commit \in DOMAIN api_outputs
    THEN
        LET first_cb == output.is_coinbase /\ output.status = "Unconfirmed"
            first_tx == ~output.is_coinbase /\ output.status = "Unconfirmed"
            log_id == b.tx_log_id[parent_key_id]
            t == [NewTxLogEntry(parent_key_id, "ConfirmedCoinbase", log_id, now)
                    EXCEPT !.confirmed = TRUE,
                           !.amount_credited = output.value,
                           !.amount_debited = 0,
                           !.num_outputs = 1,
                           !.kernel_excess = Some(KernelExcess(commit, output.value)),
                           !.kernel_lookup_min_height = Some(height),
                           !.confirmation_ts = Some(now)]
            found == {e \in TxLogIter(b.tx_log) :
                        Some(e.id) = output.tx_log_entry
                        /\ e.parent_key_id = parent_key_id}
            txs1 == IF first_cb THEN SaveTxLogEntry(b.tx_log, t, parent_key_id)
                    ELSE IF first_tx /\ found # {}
                    THEN SaveTxLogEntry(b.tx_log,
                            [(CHOOSE e \in found : TRUE)
                                EXCEPT !.confirmation_ts = Some(now), !.confirmed = TRUE],
                            parent_key_id)
                    ELSE b.tx_log
            out1 == IF first_cb THEN [output EXCEPT !.tx_log_entry = Some(log_id)]
                    ELSE output
            out2 == [out1 EXCEPT !.height = api_outputs[commit], !.status = "Unspent"]
        IN  [outputs |-> BatchSave(b.outputs, out2),
             tx_log |-> txs1,
             tx_log_id |-> IF first_cb
                           THEN [b.tx_log_id EXCEPT ![parent_key_id] = log_id + 1]
                           ELSE b.tx_log_id]
    ELSE [b EXCEPT !.outputs = BatchSave(b.outputs, mark_spent(output))]

\* faulty variant: the ConfirmedCoinbase entry is saved without its confirmed flag
ApplyOne_EntryNotConfirmed(b, commit, id, api_outputs, height, parent_key_id, now) ==
    IF id \notin DOMAIN b.outputs THEN b
    ELSE
    LET output == b.outputs[id] IN
    IF commit \in DOMAIN api_outputs
    THEN
        LET first_cb == output.is_coinbase /\ output.status = "Unconfirmed"
            first_tx == ~output.is_coinbase /\ output.status = "Unconfirmed"
            log_id == b.tx_log_id[parent_key_id]
            t == [NewTxLogEntry(parent_key_id, "ConfirmedCoinbase", log_id, now)
                    EXCEPT !.confirmed = FALSE,
                           !.amount_credited = output.value,
                           !.amount_debited = 0,
                           !.num_outputs = 1,
                           !.kernel_excess = Some(KernelExcess(commit, output.value)),
                           !.kernel_lookup_min_height = Some(height),
                           !.confirmation_ts = Some(now)]
            found == {e \in TxLogIter(b.tx_log) :
                        Some(e.id) = output.tx_log_entry
                        /\ e.parent_key_id = parent_key_id}
            txs1 == IF first_cb THEN SaveTxLogEntry(b.tx_log, t, parent_key_id)
                    ELSE IF first_tx /\ found # {}
                    THEN SaveTxLogEntry(b.tx_log,
                            [(CHOOSE e \in found : TRUE)
                                EXCEPT !.confirmation_ts = Some(now), !.confirmed = TRUE],
                            parent_key_id)
                    ELSE b.tx_log
            out1 == IF first_cb THEN [output EXCEPT !.tx_log_entry = Some(log_id)]
                    ELSE output
            out2 == mark_unspent([out1 EXCEPT !.height = api_outputs[commit]])
        IN  [outputs |-> BatchSave(b.outputs, out2),
             tx_log |-> txs1,
             tx_log_id |-> IF first_cb
                           THEN [b.tx_log_id EXCEPT ![parent_key_id] = log_id + 1]
                           ELSE b.tx_log_id]
    ELSE [b EXCEPT !.outputs = BatchSave(b.outputs, mark_spent(output))]

\* faulty variant: the entry of a confirmed transaction gets its confirmation
\* time but not its confirmed flag
ApplyOne_TxNotConfirmed(b, commit, id, api_outputs, height, parent_key_id, now) ==
    IF id \notin DOMAIN b.outputs THEN b
    ELSE
    LET output == b.outputs[id] IN
    IF commit \in DOMAIN api_outputs
    THEN
        LET first_cb == output.is_coinbase /\ output.status = "Unconfirmed"
            first_tx == ~output.is_coinbase /\ output.status = "Unconfirmed"
            log_id == b.tx_log_id[parent_key_id]
            t == [NewTxLogEntry(parent_key_id, "ConfirmedCoinbase", log_id, now)
                    EXCEPT !.confirmed = TRUE,
                           !.amount_credited = output.value,
                           !.amount_debited = 0,
                           !.num_outputs = 1,
                           !.kernel_excess = Some(KernelExcess(commit, output.value)),
                           !.kernel_lookup_min_height = Some(height),
                           !.confirmation_ts = Some(now)]
            found == {e \in TxLogIter(b.tx_log) :
                        Some(e.id) = output.tx_log_entry
                        /\ e.parent_key_id = parent_key_id}
            txs1 == IF first_cb THEN SaveTxLogEntry(b.tx_log, t, parent_key_id)
                    ELSE IF first_tx /\ found # {}
                    THEN SaveTxLogEntry(b.tx_log,
                            [(CHOOSE e \in found : TRUE)
                                EXCEPT !.confirmation_ts = Some(now)],
                            parent_key_id)
                    ELSE b.tx_log
            out1 == IF first_cb THEN [output EXCEPT !.tx_log_entry = Some(log_id)]
                    ELSE output
            out2 == mark_unspent([out1 EXCEPT !.height = api_outputs[commit]])
        IN  [outputs |-> BatchSave(b.outputs, out2),
             tx_log |-> txs1,
             tx_log_id |-> IF first_cb
                           THEN [b.tx_log_id EXCEPT ![parent_key_id] = log_id + 1]
                           ELSE b.tx_log_id]
    ELSE [b EXCEPT !.outputs = BatchSave(b.outputs, mark_spent(output))]

\* one iteration of the loop of apply_api_outputs inside the open batch b
ApplyOne(b, commit, id, api_outputs, height, parent_key_id, now) ==
    IF id \notin DOMAIN b.outputs THEN b
    ELSE
    LET output == b.outputs[id] IN
    IF commit \in DOMAIN api_outputs
    THEN
        LET first_cb == output.is_coinbase /\ output.status = "Unconfirmed"
            first_tx == ~output.is_coinbase /\ output.status = "Unconfirmed"
            log_id == b.tx_log_id[parent_key_id]
            t == [NewTxLogEntry(parent_key_id, "ConfirmedCoinbase", log_id, now)
                    EXCEPT !.confirmed = TRUE,
                           !.amount_credited = output.value,
                           !.amount_debited = 0,
                           !.num_outputs = 1,
                           !.kernel_excess = Some(KernelExcess(commit, output.value)),
                           !.kernel_lookup_min_height = Some(height),
                           !.confirmation_ts = Some(now)]
            found == {e \in TxLogIter(b.tx_log) :
                        Some(e.id) = output.tx_log_entry
                        /\ e.parent_key_id = parent_key_id}
            txs1 == IF first_cb THEN SaveTxLogEntry(b.tx_log, t, parent_key_id)
                    ELSE IF first_tx /\ found # {}
                    THEN SaveTxLogEntry(b.tx_log,
                            [(CHOOSE e \in found : TRUE)
                                EXCEPT !.confirmation_ts = Some(now), !.confirmed = TRUE],
                            parent_key_id)
                    ELSE b.tx_log
            out1 == IF first_cb THEN [output EXCEPT !.tx_log_entry = Some(log_id)]
                    ELSE output
            out2 == mark_unspent([out1 EXCEPT !.height = api_outputs[commit]])
        IN  [outputs |-> BatchSave(b.outputs, out2),
             tx_log |-> txs1,
             tx_log_id |-> IF first_cb
                           THEN [b.tx_log_id EXCEPT ![parent_key_id] = log_id + 1]
                           ELSE b.tx_log_id]
    ELSE [b EXCEPT !.outputs = BatchSave(b.outputs, mark_spent(output))]

RECURSIVE ApplyLoop(_, _, _, _, _, _, _)
\* the loop of apply_api_outputs, visiting wallet_outputs in the given order
ApplyLoop(b, order, wallet_outputs, api_outputs, height, parent_key_id, now) ==
    IF order = <<>> THEN b
    ELSE ApplyLoop(
            ApplyOne(b, Head(order), wallet_outputs[Head(order)], api_outputs,
                     height, parent_key_id, now),
            Tail(order), wallet_outputs, api_outputs, height, parent_key_id, now)

\* faulty variant: the comparison is the wrong way round, a tip below the
\* last confirmed height passes the gate
StaleChain_Reversed(height, lch) == height > lch

\* faulty variant: a tip at the last confirmed height is stale too
StaleChain_Inclusive(height, lch) == height <= lch

\* the stale-chain gate of apply_api_outputs
StaleChain(height, lch) == height < lch

\* ---------------------------------------------------------- cleanup step
\* faulty variant: the age test includes the boundary
OldUnconfirmed_Inclusive(outs, height) ==
    IF height < CleanupAge THEN {}
    ELSE {out.key_id : out \in {o \in WalletIter(outs) :
                /\ o.status = "Unconfirmed"
                /\ o.height > 0
                /\ o.height <= height - CleanupAge
                /\ o.is_coinbase}}

\* faulty variant: no early return below the cleanup age; the unsigned
\* `height - 50` then wraps to a value above every height an output can have
OldUnconfirmed_NoEarlyReturn(outs, height) ==
    {out.key_id : out \in {o \in WalletIter(outs) :
                /\ o.status = "Unconfirmed"
                /\ o.height > 0
                /\ IF height < CleanupAge THEN TRUE
                   ELSE o.height < height - CleanupAge
                /\ o.is_coinbase}}

\* faulty variant: old Unconfirmed outputs are deleted, coinbase or not
OldUnconfirmed_AnyOutput(outs, height) ==
    IF height < CleanupAge THEN {}
    ELSE {out.key_id : out \in {o \in WalletIter(outs) :
                /\ o.status = "Unconfirmed"
                /\ o.height > 0
                /\ o.height < height - CleanupAge}}

\* the outputs clean_old_unconfirmed deletes at the given tip height
OldUnconfirmed(outs, height) ==
    IF height < CleanupAge THEN {}
    ELSE {out.key_id : out \in {o \in WalletIter(outs) :
                /\ o.status = "Unconfirmed"
                /\ o.height > 0
                /\ o.height < height - CleanupAge
                /\ o.is_coinbase}}

clean_old_unconfirmed(outs, height) ==
    [k \in DOMAIN outs \ OldUnconfirmed(outs, height) |-> outs[k]]

\* ------------------------------------------------------------ call state
NoRefresh ==
    [pc |-> "idle", parent_key_id |-> "A", update_all |-> FALSE, height |-> 0,
     wallet_outputs |-> <<>>, api_outputs |-> <<>>, gate |-> "none",
     wrote |-> FALSE, started |-> 0]

NoCancel ==
    [pc |-> "idle", parent_key_id |-> "A", tx |-> None, outputs |-> {}]

NoBuild ==
    [pc |-> "idle", parent_key_id |-> "A", foundation |-> FALSE,
     block_fees |-> None, key_id |-> None, existing |-> FALSE,
     wrote |-> FALSE]

\* the answer of a call: Ok or Err, the step that failed, and for
\*   refresh_outputs: the tip height read, the gate taken ("stale", "open" or
\*                    "none" when it was not reached), the keys cleanup deleted
\*   build_*:         CbData.key_id and whether that key was a tracked one
\* and whether a batch the call committed changed the ledger
Returned(op, result, failed) ==
    [op |-> op, result |-> result, failed |-> failed, height |-> 0,
     gate |-> "none", deleted |-> {}, key_id |-> None, existing |-> FALSE,
     wrote |-> FALSE, at |-> ops]

\* consensus::reward(fees, height)
reward(fees, height) == BlockSubsidy + fees

\* consensus::cumulative_reward_foundation(height)
cumulative_reward_foundation(height) == FoundationReward + height

\* keys::retrieve_existing_key(wallet, key_id, None) is Ok
retrieve_existing_key(outs, key_id) == key_id \in DOMAIN outs

\* faulty variant: a fresh key whatever the request pre-selects
SelectKey_AlwaysNext(outs, parent_key_id, key_id, next_child) ==
    <<parent_key_id, next_child>>

\* the key a reward request ends up with: the pre-selected one when it is a
\* tracked key, else keys::next_available_key
SelectKey(outs, parent_key_id, key_id, next_child) ==
    IF key_id # None /\ retrieve_existing_key(outs, key_id[1])
    THEN key_id[1]
    ELSE <<parent_key_id, next_child>>

\* faulty variant: the lock height leaves out the maturity period
CoinbaseOutput_NoMaturity(parent_key_id, key_id, amount, height) ==
    [root_key_id |-> parent_key_id, key_id |-> key_id, n_child |-> key_id[2],
     mmr_index |-> None, commit |-> Some(Commit(amount, key_id)),
     value |-> amount, status |-> "Unconfirmed", height |-> height,
     lock_height |-> height, is_coinbase |-> TRUE,
     tx_log_entry |-> None]

\* the OutputData receive_coinbase / receive_foundation save
CoinbaseOutput(parent_key_id, key_id, amount, height) ==
    [root_key_id |-> parent_key_id, key_id |-> key_id, n_child |-> key_id[2],
     mmr_index |-> None, commit |-> Some(Commit(amount, key_id)),
     value |-> amount, status |-> "Unconfirmed", height |-> height,
     lock_height |-> height + CoinbaseMaturity, is_coinbase |-> TRUE,
     tx_log_entry |-> None]

\* the wallet opens a persisted ledger: a new one, or one in which account A
\* built a reward at height 5 that a pass at tip height 57 confirmed
NewLedger ==
    [outputs |-> <<>>, tx_log |-> <<>>,
     last_confirmed_height |-> [a \in Accounts |-> 0],
     tx_log_id |-> [a \in Accounts |-> 0],
     child_index |-> [a \in Accounts |-> 0]]

FundedLedger ==
    LET key_id == <<"A", 0>>
        built == CoinbaseOutput("A", key_id, reward(1, 5), 5)
        b == ApplyOne([outputs |-> BatchSave(<<>>, built), tx_log |-> <<>>,
                       tx_log_id |-> NewLedger.tx_log_id],
                      OutputCommit(built), key_id,
                      [c \in {OutputCommit(built)} |-> 5], 57, "A", 0)
    IN  [outputs |-> b.outputs, tx_log |-> b.tx_log,
         last_confirmed_height |-> [NewLedger.last_confirmed_height EXCEPT !["A"] = 57],
         tx_log_id |-> b.tx_log_id,
         child_index |-> [NewLedger.child_index EXCEPT !["A"] = 1]]

\* a ledger in which account A built two rewards at height 5 that no pass has
\* seen yet
MinedLedger ==
    LET first == CoinbaseOutput("A", <<"A", 0>>, reward(1, 5), 5)
        second == CoinbaseOutput("A", <<"A", 1>>, reward(1, 5), 5)
    IN  [NewLedger EXCEPT !.outputs = BatchSave(BatchSave(<<>>, first), second),
                          !.child_index = [NewLedger.child_index EXCEPT !["A"] = 2]]

\* the funded ledger after the reward A/0 was spent and a pass saw it gone
\* from the node, and a second reward A/1 confirmed
SpentLedger ==
    LET key_id == <<"A", 1>>
        spent == [outputs |-> BatchSave(FundedLedger.outputs,
                                mark_spent(FundedLedger.outputs[<<"A", 0>>])),
                  tx_log |-> FundedLedger.tx_log,
                  tx_log_id |-> FundedLedger.tx_log_id]
        built == CoinbaseOutput("A", key_id, reward(1, 5), 5)
        b == ApplyOne([spent EXCEPT !.outputs = BatchSave(@, built)],
                      OutputCommit(built), key_id,
                      [c \in {OutputCommit(built)} |-> 5], 57, "A", 0)
    IN  [outputs |-> b.outputs, tx_log |-> b.tx_log,
         last_confirmed_height |-> FundedLedger.last_confirmed_height,
         tx_log_id |-> b.tx_log_id,
         child_index |-> [NewLedger.child_index EXCEPT !["A"] = 2]]

\* a ledger in which account A received a transaction at height 5 that no
\* pass has seen yet: the output and the TxReceived entry receive_tx writes
ReceivedLedger ==
    LET key_id == <<"A", 0>>
        t == [NewTxLogEntry("A", "TxReceived", 0, 0)
                 EXCEPT !.tx_slate_id = Some(<<"slate", "A", 0>>),
                        !.amount_credited = 7,
                        !.num_outputs = 1]
    IN  [outputs |-> BatchSave(<<>>,
                        [root_key_id |-> "A", key_id |-> key_id,
                         n_child |-> 0, mmr_index |-> None,
                         commit |-> Some(Commit(7, key_id)), value |-> 7,
                         status |-> "Unconfirmed", height |-> 5,
                         lock_height |-> 0, is_coinbase |-> FALSE,
                         tx_log_entry |-> Some(0)]),
         tx_log |-> SaveTxLogEntry(<<>>, t, "A"),
         last_confirmed_height |-> NewLedger.last_confirmed_height,
         tx_log_id |-> [NewLedger.tx_log_id EXCEPT !["A"] = 1],
         child_index |-> [NewLedger.child_index EXCEPT !["A"] = 1]]

Init ==
    /\ ops = 0
    /\ \E l \in {NewLedger, FundedLedger, MinedLedger, SpentLedger,
                 ReceivedLedger} :
         /\ outputs = l.outputs
         /\ tx_log = l.tx_log
         /\ last_confirmed_height = l.last_confirmed_height
         /\ tx_log_id = l.tx_log_id
         /\ child_index = l.child_index
    /\ refresh = NoRefresh
    /\ cancel = NoCancel
    /\ build = NoBuild
    /\ returned = Returned("none", "none", "none")

\* a call may start: the budget is not used up, and no reward request is
\* between its output batch and its proof (that step reads and writes nothing
\* any other call sees, so running it first loses no ledger state)
MayStart == ops < MaxOps /\ build.pc = "idle"

\* ------------------------------------------------------ refresh_outputs
\* faulty variant: the tip height is saved as last confirmed height before
\* get_outputs_from_node answers
RefreshQuery_SaveHeightFirst(parent_key_id, update_all) ==
    /\ refresh.pc = "idle"
    /\ MayStart
    /\ ops' = ops + 1
    /\ \/ /\ refresh' = NoRefresh
          /\ returned' = Returned("refresh", "Err", "get_chain_tip")
       \/ \E height \in TipHeights :
            LET wallet_outputs ==
                    map_wallet_outputs(outputs, tx_log, parent_key_id, update_all)
            IN
            \/ /\ refresh' = NoRefresh
               /\ returned' = [Returned("refresh", "Err", "map_wallet_outputs")
                                  EXCEPT !.height = height]
            \/ /\ refresh' = NoRefresh
               /\ returned' = [Returned("refresh", "Err", "get_outputs_from_node")
                                  EXCEPT !.height = height]
            \/ \E reported \in SUBSET DOMAIN wallet_outputs :
                 \E api_outputs \in [reported -> ReportHeights] :
                    /\ refresh' = [pc |-> "apply",
                                   parent_key_id |-> parent_key_id,
                                   update_all |-> update_all,
                                   height |-> height,
                                   wallet_outputs |-> wallet_outputs,
                                   api_outputs |-> api_outputs,
                                   gate |-> "none", wrote |-> FALSE,
                                   started |-> ops']
                    /\ UNCHANGED returned
    /\ last_confirmed_height' =
          IF returned'.failed = "get_outputs_from_node" /\ returned'.at = ops
          THEN [last_confirmed_height EXCEPT ![parent_key_id] = returned'.height]
          ELSE last_confirmed_height
    /\ UNCHANGED <<outputs, tx_log, tx_log_id, child_index, cancel, build>>

\* get_chain_tip, map_wallet_outputs and get_outputs_from_node: the node may
\* fail either call, answer any tip height and report any of the commitments
\* asked for at any height; map_wallet_outputs may fail reading the wallet.
\* Nothing is written, so the three run as one step.
RefreshQuery(parent_key_id, update_all) ==
    /\ refresh.pc = "idle"
    /\ MayStart
    /\ ops' = ops + 1
    /\ \/ /\ refresh' = NoRefresh
          /\ returned' = Returned("refresh", "Err", "get_chain_tip")
       \/ \E height \in TipHeights :
            LET wallet_outputs ==
                    map_wallet_outputs(outputs, tx_log, parent_key_id, update_all)
            IN
            \/ /\ refresh' = NoRefresh
               /\ returned' = [Returned("refresh", "Err", "map_wallet_outputs")
                                  EXCEPT !.height = height]
            \/ /\ refresh' = NoRefresh
               /\ returned' = [Returned("refresh", "Err", "get_outputs_from_node")
                                  EXCEPT !.height = height]
            \/ \E reported \in SUBSET DOMAIN wallet_outputs :
                 \E api_outputs \in [reported -> ReportHeights] :
                    /\ refresh' = [pc |-> "apply",
                                   parent_key_id |-> parent_key_id,
                                   update_all |-> update_all,
                                   height |-> height,
                                   wallet_outputs |-> wallet_outputs,
                                   api_outputs |-> api_outputs,
                                   gate |-> "none", wrote |-> FALSE,
                                   started |-> ops']
                    /\ UNCHANGED returned
    /\ UNCHANGED <<outputs, tx_log, last_confirmed_height, tx_log_id,
                   child_index, cancel, build>>

\* the ledger apply_api_outputs commits when the gate lets the pass through
ApplyResult(order, now) ==
    ApplyLoop([outputs |-> outputs, tx_log |-> tx_log, tx_log_id |-> tx_log_id],
              order, refresh.wallet_outputs, refresh.api_outputs,
              refresh.height, refresh.parent_key_id, now)

\* faulty variant: the gate and the saved height use a tip height read again
\* after the output query
RefreshApply_RereadsTip ==
    \E tip \in TipHeights :
    /\ refresh.pc = "apply"
    /\ build.pc = "idle"
    /\ \/ \* wallet.last_confirmed_height() fails
          /\ refresh' = NoRefresh
          /\ returned' = [Returned("refresh", "Err", "apply")
                             EXCEPT !.height = refresh.height]
          /\ UNCHANGED ledger
       \/ /\ StaleChain(tip,
                        last_confirmed_height[refresh.parent_key_id])
          /\ refresh' = [refresh EXCEPT !.pc = "clean", !.gate = "stale"]
          /\ UNCHANGED <<ledger, returned>>
       \/ /\ ~StaleChain(tip,
                         last_confirmed_height[refresh.parent_key_id])
          /\ \/ \* wallet.batch, a write of the batch or its commit fails
                /\ refresh' = NoRefresh
                /\ returned' = [Returned("refresh", "Err", "apply")
                                   EXCEPT !.height = refresh.height,
                                          !.gate = "open"]
                /\ UNCHANGED ledger
             \/ \E order \in Perms(DOMAIN refresh.wallet_outputs) :
                  LET b == ApplyResult(order, ops) IN
                  /\ outputs' = b.outputs
                  /\ tx_log' = b.tx_log
                  /\ tx_log_id' = b.tx_log_id
                  /\ last_confirmed_height' =
                        [last_confirmed_height
                            EXCEPT ![refresh.parent_key_id] = tip]
                  /\ refresh' = [refresh EXCEPT !.pc = "clean", !.gate = "open",
                                                !.wrote = (ledger' # ledger)]
                  /\ UNCHANGED returned
    /\ UNCHANGED <<child_index, cancel, build, ops>>

\* apply_api_outputs: the gate, then one batch over the candidates
RefreshApply ==
    /\ refresh.pc = "apply"
    /\ build.pc = "idle"
    /\ \/ \* wallet.last_confirmed_height() fails
          /\ refresh' = NoRefresh
          /\ returned' = [Returned("refresh", "Err", "apply")
                             EXCEPT !.height = refresh.height]
          /\ UNCHANGED ledger
       \/ /\ StaleChain(refresh.height,
                        last_confirmed_height[refresh.parent_key_id])
          /\ refresh' = [refresh EXCEPT !.pc = "clean", !.gate = "stale"]
          /\ UNCHANGED <<ledger, returned>>
       \/ /\ ~StaleChain(refresh.height,
                         last_confirmed_height[refresh.parent_key_id])
          /\ \/ \* wallet.batch, a write of the batch or its commit fails
                /\ refresh' = NoRefresh
                /\ returned' = [Returned("refresh", "Err", "apply")
                                   EXCEPT !.height = refresh.height,
                                          !.gate = "open"]
                /\ UNCHANGED ledger
             \/ \E order \in Perms(DOMAIN refresh.wallet_outputs) :
                  LET b == ApplyResult(order, ops) IN
                  /\ outputs' = b.outputs
                  /\ tx_log' = b.tx_log
                  /\ tx_log_id' = b.tx_log_id
                  /\ last_confirmed_height' =
                        [last_confirmed_height
                            EXCEPT ![refresh.parent_key_id] = refresh.height]
                  /\ refresh' = [refresh EXCEPT !.pc = "clean", !.gate = "open",
                                                !.wrote = (ledger' # ledger)]
                  /\ UNCHANGED returned
    /\ UNCHANGED <<child_index, cancel, build, ops>>

\* clean_old_unconfirmed, run with the height read at the start of the pass
RefreshClean ==
    /\ refresh.pc = "clean"
    /\ build.pc = "idle"
    /\ \/ \* wallet.batch, a delete or the commit fails
          /\ refresh.height >= CleanupAge
          /\ returned' = [Returned("refresh", "Err", "clean")
                             EXCEPT !.height = refresh.height,
                                    !.gate = refresh.gate,
                                    !.wrote = refresh.wrote]
          /\ UNCHANGED outputs
       \/ /\ outputs' = clean_old_unconfirmed(outputs, refresh.height)
          /\ returned' = [Returned("refresh", "Ok", "none")
                             EXCEPT !.height = refresh.height,
                                    !.gate = refresh.gate,
                                    !.deleted = DOMAIN outputs \ DOMAIN outputs',
                                    !.wrote = (refresh.wrote \/ outputs' # outputs)]
    /\ refresh' = NoRefresh
    /\ UNCHANGED <<tx_log, last_confirmed_height, tx_log_id, child_index,
                   cancel, build, ops>>

\* ------------------------------------------------ cancel_tx_and_outputs
\* the caller looks up the entry and its outputs (retrieve_txs,
\* retrieve_outputs) and hands both to cancel_tx_and_outputs
CancelRead(parent_key_id) ==
    /\ cancel.pc = "idle"
    /\ MayStart
    /\ ops' = ops + 1
    /\ \E tx \in retrieve_txs(tx_log, None, None, Some(parent_key_id), FALSE) :
         cancel' = [pc |-> "write", parent_key_id |-> parent_key_id,
                    tx |-> Some(tx),
                    outputs |-> retrieve_outputs(outputs, FALSE, Some(tx.id),
                                                 Some(parent_key_id))]
    /\ UNCHANGED <<outputs, tx_log, last_confirmed_height, tx_log_id,
                   child_index, refresh, build, returned>>

RECURSIVE CancelOutputs_DeletesLocked(_, _)
\* faulty variant: Locked outputs are deleted like Unconfirmed ones
CancelOutputs_DeletesLocked(outs, listed) ==
    IF listed = {} THEN outs
    ELSE LET o == CHOOSE x \in listed : TRUE
             outs1 == IF o.status \in {"Unconfirmed", "Locked"}
                      THEN BatchDelete(outs, o.key_id)
                      ELSE outs
         IN  CancelOutputs_DeletesLocked(outs1, listed \ {o})

RECURSIVE CancelOutputs(_, _)
\* the loop of cancel_tx_and_outputs over the outputs handed in
CancelOutputs(outs, listed) ==
    IF listed = {} THEN outs
    ELSE LET o == CHOOSE x \in listed : TRUE
             outs1 == IF o.status = "Unconfirmed" THEN BatchDelete(outs, o.key_id)
                      ELSE IF o.status = "Locked"
                      THEN BatchSave(outs, [o EXCEPT !.status = "Unspent"])
                      ELSE outs
         IN  CancelOutputs(outs1, listed \ {o})

\* faulty variant: an entry of any type that is not yet cancelled is flipped
CancelledEntry_FlipsAny(tx) ==
    IF tx.tx_type = "TxSent" THEN [tx EXCEPT !.tx_type = "TxSentCancelled"]
    ELSE IF tx.tx_type \in {"TxReceived", "ConfirmedCoinbase"}
    THEN [tx EXCEPT !.tx_type = "TxReceivedCancelled"]
    ELSE tx

\* faulty variant: the entry is saved with its type as it was
CancelledEntry_NoFlip(tx) == tx

\* the entry cancel_tx_and_outputs saves
CancelledEntry(tx) ==
    IF tx.tx_type = "TxSent" THEN [tx EXCEPT !.tx_type = "TxSentCancelled"]
    ELSE IF tx.tx_type = "TxReceived"
    THEN [tx EXCEPT !.tx_type = "TxReceivedCancelled"]
    ELSE tx

\* faulty variant: the output writes go through when the batch fails
CancelWrite_PartialCommit ==
    /\ cancel.pc = "write"
    /\ build.pc = "idle"
    /\ \/ \* wallet.batch, a write or the commit fails: the batch is dropped
          /\ returned' = Returned("cancel", "Err", "batch")
          /\ outputs' = CancelOutputs(outputs, cancel.outputs)
          /\ UNCHANGED tx_log
       \/ /\ outputs' = CancelOutputs(outputs, cancel.outputs)
          /\ tx_log' = SaveTxLogEntry(tx_log, CancelledEntry(cancel.tx[1]),
                                      cancel.parent_key_id)
          /\ returned' = [Returned("cancel", "Ok", "none")
                             EXCEPT !.wrote = (<<outputs, tx_log>>' # <<outputs, tx_log>>)]
    /\ cancel' = NoCancel
    /\ UNCHANGED <<last_confirmed_height, tx_log_id, child_index, refresh,
                   build, ops>>

\* cancel_tx_and_outputs: one batch, committed at the end
CancelWrite ==
    /\ cancel.pc = "write"
    /\ build.pc = "idle"
    /\ \/ \* wallet.batch, a write or the commit fails: the batch is dropped
          /\ returned' = Returned("cancel", "Err", "batch")
          /\ UNCHANGED <<outputs, tx_log>>
       \/ /\ outputs' = CancelOutputs(outputs, cancel.outputs)
          /\ tx_log' = SaveTxLogEntry(tx_log, CancelledEntry(cancel.tx[1]),
                                      cancel.parent_key_id)
          /\ returned' = [Returned("cancel", "Ok", "none")
                             EXCEPT !.wrote = (<<outputs, tx_log>>' # <<outputs, tx_log>>)]
    /\ cancel' = NoCancel
    /\ UNCHANGED <<last_confirmed_height, tx_log_id, child_index, refresh,
                   build, ops>>

\* ------------------------------------- build_coinbase, build_foundation
\* receive_coinbase / receive_foundation up to the commit of the output batch;
\* parent_key_id is wallet.parent_key_id(), the active account
BuildWrite(parent_key_id, foundation, block_fees) ==
    /\ MayStart
    /\ ops' = ops + 1
    /\ LET existing == /\ block_fees.key_id # None
                       /\ retrieve_existing_key(outputs, block_fees.key_id[1])
           key_id == SelectKey(outputs, parent_key_id, block_fees.key_id,
                               child_index[parent_key_id])
           amount == IF foundation
                     THEN cumulative_reward_foundation(block_fees.height)
                     ELSE reward(block_fees.fees, block_fees.height)
       IN
       /\ existing \/ child_index[parent_key_id] < MaxChild
       /\ \/ \* next_available_key fails
             /\ ~existing
             /\ returned' = Returned("build", "Err", "key")
             /\ UNCHANGED <<outputs, child_index, build>>
          \/ \* calc_commit_for_cache, wallet.batch, save or commit fails
             /\ returned' = [Returned("build", "Err", "batch")
                                EXCEPT !.existing = existing]
             /\ child_index' = IF existing THEN child_index
                               ELSE [child_index EXCEPT ![parent_key_id] = @ + 1]
             /\ UNCHANGED <<outputs, build>>
          \/ /\ outputs' = BatchSave(outputs,
                    CoinbaseOutput(parent_key_id, key_id, amount, block_fees.height))
             /\ child_index' = IF existing THEN child_index
                               ELSE [child_index EXCEPT ![parent_key_id] = @ + 1]
             /\ build' = [pc |-> "proof", parent_key_id |-> parent_key_id,
                          foundation |-> foundation,
                          block_fees |-> Some(block_fees),
                          key_id |-> Some(key_id), existing |-> existing,
                          wrote |-> (outputs' # outputs)]
             /\ UNCHANGED returned
    /\ UNCHANGED <<tx_log, last_confirmed_height, tx_log_id, refresh, cancel>>

\* faulty variant: a request whose proof fails takes its output back
BuildProof_FailureDropsOutput ==
    /\ build.pc = "proof"
    /\ \/ /\ returned' = [Returned("build", "Err", "proof")
                             EXCEPT !.existing = build.existing,
                                    !.wrote = build.wrote]
          /\ outputs' = BatchDelete(outputs, build.key_id[1])
       \/ /\ returned' = [Returned("build", "Ok", "none")
                             EXCEPT !.key_id = build.key_id,
                                    !.existing = build.existing,
                                    !.wrote = build.wrote]
          /\ UNCHANGED outputs
    /\ build' = NoBuild
    /\ UNCHANGED <<tx_log, last_confirmed_height, tx_log_id,
                   child_index, refresh, cancel, ops>>

\* reward::output / reward::output_foundation_proof, then the CbData answer
BuildProof ==
    /\ build.pc = "proof"
    /\ \/ returned' = [Returned("build", "Err", "proof")
                          EXCEPT !.existing = build.existing,
                                 !.wrote = build.wrote]
       \/ returned' = [Returned("build", "Ok", "none")
                          EXCEPT !.key_id = build.key_id,
                                 !.existing = build.existing,
                                 !.wrote = build.wrote]
    /\ build' = NoBuild
    /\ UNCHANGED <<outputs, tx_log, last_confirmed_height, tx_log_id,
                   child_index, refresh, cancel, ops>>

BlockFeesRequests ==
    [fees : Fees, height : BuildHeights, key_id : {None} \cup {Some(k) : k \in PreSelected}]

\* ------------------------------------------------------- slate protocol
\* receive_tx: a new receiving output sized to the slate's amount and a
\* TxReceived entry, written in one batch
ReceiveTx(parent_key_id, amount, height) ==
    /\ MayStart
    /\ child_index[parent_key_id] < MaxChild
    /\ ops' = ops + 1
    /\ LET key_id == <<parent_key_id, child_index[parent_key_id]>>
           log_id == tx_log_id[parent_key_id]
           t == [NewTxLogEntry(parent_key_id, "TxReceived", log_id, ops)
                    EXCEPT !.tx_slate_id = Some(<<"slate", parent_key_id, log_id>>),
                           !.amount_credited = amount,
                           !.num_outputs = 1]
       IN
       /\ outputs' = BatchSave(outputs,
              [root_key_id |-> parent_key_id, key_id |-> key_id,
               n_child |-> key_id[2], mmr_index |-> None,
               commit |-> Some(Commit(amount, key_id)), value |-> amount,
               status |-> "Unconfirmed", height |-> height,
               lock_height |-> 0, is_coinbase |-> FALSE,
               tx_log_entry |-> Some(log_id)])
       /\ tx_log' = SaveTxLogEntry(tx_log, t, parent_key_id)
       /\ tx_log_id' = [tx_log_id EXCEPT ![parent_key_id] = log_id + 1]
       /\ child_index' = [child_index EXCEPT ![parent_key_id] = @ + 1]
    /\ UNCHANGED <<last_confirmed_height, refresh, cancel, build, returned>>

\* a transaction this wallet pays: the Unspent input is Locked, the change
\* output (when there is one) is Unconfirmed, both linked to a TxSent entry
SendTx(parent_key_id, input, change) ==
    /\ MayStart
    /\ input \in DOMAIN outputs
    /\ outputs[input].status = "Unspent"
    /\ outputs[input].root_key_id = parent_key_id
    /\ change => child_index[parent_key_id] < MaxChild /\ outputs[input].value > 1
    /\ ops' = ops + 1
    /\ LET key_id == <<parent_key_id, child_index[parent_key_id]>>
           log_id == tx_log_id[parent_key_id]
           in == outputs[input]
           t == [NewTxLogEntry(parent_key_id, "TxSent", log_id, ops)
                    EXCEPT !.tx_slate_id = Some(<<"slate", parent_key_id, log_id>>),
                           !.amount_debited = in.value,
                           !.amount_credited = IF change THEN 1 ELSE 0,
                           !.num_inputs = 1,
                           !.num_outputs = IF change THEN 1 ELSE 0]
           locked == BatchSave(outputs,
                        [in EXCEPT !.status = "Locked",
                                   !.tx_log_entry = Some(log_id)])
       IN
       /\ outputs' = IF change
                     THEN BatchSave(locked,
                            [root_key_id |-> parent_key_id, key_id |-> key_id,
                             n_child |-> key_id[2], mmr_index |-> None,
                             commit |-> Some(Commit(1, key_id)), value |-> 1,
                             status |-> "Unconfirmed", height |-> in.height,
                             lock_height |-> 0, is_coinbase |-> FALSE,
                             tx_log_entry |-> Some(log_id)])
                     ELSE locked
       /\ tx_log' = SaveTxLogEntry(tx_log, t, parent_key_id)
       /\ tx_log_id' = [tx_log_id EXCEPT ![parent_key_id] = log_id + 1]
       /\ child_index' = IF change
                         THEN [child_index EXCEPT ![parent_key_id] = @ + 1]
                         ELSE child_index
    /\ UNCHANGED <<last_confirmed_height, refresh, cancel, build, returned>>

\* ---------------------------------------------------------- specification
Next ==
    \/ \E a \in Spending, update_all \in BOOLEAN : RefreshQuery(a, update_all)
    \/ RefreshApply
    \/ RefreshClean
    \/ \E a \in Spending : CancelRead(a)
    \/ CancelWrite
    \/ \E a \in Accounts, foundation \in BOOLEAN, bf \in BlockFeesRequests :
          BuildWrite(a, foundation, bf)
    \/ BuildProof
    \/ \E a \in Spending, amount \in SlateAmounts, h \in SlateHeights :
          ReceiveTx(a, amount, h)
    \/ \E a \in Spending, k \in KeyIds, change \in BOOLEAN : SendTx(a, k, change)

Spec == Init /\ [][Next]_vars

\* ================================================================ claims
\* a step of the refresh_outputs call in flight, no other call having started
\* or being under way since the pass began
RefreshStepAlone ==
    /\ refresh' # refresh
    /\ refresh.pc # "idle"
    /\ refresh.started = ops
    /\ cancel.pc = "idle"
\* the cleanup step of a pass commits
CleanupCommits ==
    /\ refresh.pc = "clean"
    /\ refresh'.pc = "idle"
    /\ returned'.result = "Ok"
\* an Unconfirmed coinbase output created at a height above 0
RewardCandidate(o) ==
    o.status = "Unconfirmed" /\ o.is_coinbase /\ o.height > 0

\* C1: a pass whose tip height is below the last confirmed height leaves
\* outputs, transaction log and last confirmed height unchanged in every one
\* of its steps, the cleanup step included.
C1_StalePassUnchanged ==
    [][(/\ RefreshStepAlone
        /\ \/ refresh.gate = "stale"
           \/ /\ refresh.pc = "apply"
              /\ StaleChain(refresh.height,
                            last_confirmed_height[refresh.parent_key_id]))
       => UNCHANGED ledger]_vars

\* C4 as stated: the cleanup step at tip height H deletes every reward
\* candidate of height h with H >= h + 50 and keeps those with H < h + 50.
C4_PurgedFromAge50 ==
    [][(CleanupCommits /\ RefreshStepAlone) =>
        \A k \in DOMAIN outputs :
            RewardCandidate(outputs[k]) =>
              /\ refresh.height >= outputs[k].height + CleanupAge
                    => k \notin DOMAIN outputs'
              /\ refresh.height < outputs[k].height + CleanupAge
                    => k \in DOMAIN outputs']_vars

\* C4 amended: the cleanup step at tip height H deletes every reward candidate
\* of height h with H > h + 50 and keeps those with H <= h + 50, and it
\* changes no output it keeps.
C4_PurgedAboveAge50 ==
    [][CleanupCommits =>
        \A k \in DOMAIN outputs :
            /\ k \in DOMAIN outputs' => outputs'[k] = outputs[k]
            /\ RewardCandidate(outputs[k]) =>
                /\ refresh.height > outputs[k].height + CleanupAge
                      => k \notin DOMAIN outputs'
                /\ refresh.height <= outputs[k].height + CleanupAge
                      => k \in DOMAIN outputs']_vars

\* a pass at tip height 56 has purged a reward candidate (of height 5)
C4_Witness ==
    /\ returned.op = "refresh"
    /\ returned.result = "Ok"
    /\ returned.height = 56
    /\ returned.deleted # {}

\* C8: a pass that trips the stale-chain gate returns Ok.
C8_StalePassReturnsOk ==
    (returned.op = "refresh" /\ returned.gate = "stale")
        => returned.result = "Ok"

\* C9: an output that is Spent or Deleted keeps that status in every step.
C9_SpentDeletedTerminal ==
    [][\A k \in DOMAIN outputs :
        (outputs[k].status \in {"Spent", "Deleted"} /\ k \in DOMAIN outputs')
            => outputs'[k].status = outputs[k].status]_vars

\* C10: when the output batch of a reward request has committed and proof
\* construction has not started, the ledger holds under the request's key an
\* Unconfirmed coinbase output of the requested height, locked until that
\* height plus the coinbase maturity, with no transaction-log link.
C10_ProvisionalOutputWritten ==
    build.pc = "proof" =>
        /\ build.key_id[1] \in DOMAIN outputs
        /\ LET o == outputs[build.key_id[1]] IN
            /\ o.status = "Unconfirmed"
            /\ o.is_coinbase
            /\ o.height = build.block_fees[1].height
            /\ o.lock_height = build.block_fees[1].height + CoinbaseMaturity
            /\ o.tx_log_entry = None
            /\ o.root_key_id = build.parent_key_id

\* a foundation request has written its output and waits for the proof
C10_Witness ==
    /\ build.pc = "proof"
    /\ build.foundation
    /\ build.block_fees[1].height = 5

\* refresh_output_state run to its end on ledger l with no failure and nothing
\* in between, against a node that holds the commitments DOMAIN node: the
\* ledgers it may leave, one per iteration order of the candidate map
RefreshPass(l, parent_key_id, update_all, height, node, now) ==
    LET wallet_outputs ==
            map_wallet_outputs(l.outputs, l.tx_log, parent_key_id, update_all)
        api_outputs ==
            [c \in DOMAIN wallet_outputs \cap DOMAIN node |-> node[c]]
        Applied(order) ==
            ApplyLoop([outputs |-> l.outputs, tx_log |-> l.tx_log,
                       tx_log_id |-> l.tx_log_id],
                      order, wallet_outputs, api_outputs, height,
                      parent_key_id, now)
    IN  IF StaleChain(height, l.last_confirmed_height[parent_key_id])
        THEN {[l EXCEPT !.outputs = clean_old_unconfirmed(l.outputs, height)]}
        ELSE {[outputs |-> clean_old_unconfirmed(Applied(order).outputs, height),
               tx_log |-> Applied(order).tx_log,
               tx_log_id |-> Applied(order).tx_log_id,
               last_confirmed_height |->
                   [l.last_confirmed_height EXCEPT ![parent_key_id] = height]] :
                 order \in Perms(DOMAIN wallet_outputs)}

\* the persisted ledger as one record
Ledger ==
    [outputs |-> outputs, tx_log |-> tx_log, tx_log_id |-> tx_log_id,
     last_confirmed_height |-> last_confirmed_height]

\* C2: with the answer of the node in hand and the gate open, running the
\* pass and then running it again (later, same account, same update_all, same
\* tip height, same node answer) leaves the ledger of the first run: same
\* outputs, same transaction-log entries and ids, same last confirmed height.
C2_Idempotent ==
    (/\ refresh.pc = "apply"
     /\ ~StaleChain(refresh.height, last_confirmed_height[refresh.parent_key_id]))
    => \A l1 \in RefreshPass(Ledger, refresh.parent_key_id, refresh.update_all,
                             refresh.height, refresh.api_outputs, ops) :
         RefreshPass(l1, refresh.parent_key_id, refresh.update_all,
                     refresh.height, refresh.api_outputs, ops + 1) = {l1}

\* a pass about to apply an answer that confirms an Unconfirmed coinbase
\* output for the first time and leaves another candidate unreported
C2_Witness ==
    /\ refresh.pc = "apply"
    /\ ~StaleChain(refresh.height, last_confirmed_height[refresh.parent_key_id])
    /\ \E c \in DOMAIN refresh.api_outputs :
         LET k == refresh.wallet_outputs[c] IN
         /\ k \in DOMAIN outputs
         /\ outputs[k].is_coinbase
         /\ outputs[k].status = "Unconfirmed"
    /\ DOMAIN refresh.wallet_outputs # DOMAIN refresh.api_outputs

\* a call returns in this step
Returns == returned' # returned

\* C3: the step in which cancel_tx_and_outputs returns either fails and leaves
\* the ledger as it was, or succeeds and at once removes every listed
\* Unconfirmed output, makes every listed Locked output Unspent and turns a
\* TxSent / TxReceived entry into its Cancelled variant under the same id.
C3_CancelAtomic ==
    [][(Returns /\ returned'.op = "cancel") =>
        LET tx == cancel.tx[1]
            id == <<cancel.parent_key_id, tx.id>>
        IN
        \/ /\ returned'.result = "Err"
           /\ UNCHANGED ledger
        \/ /\ returned'.result = "Ok"
           /\ \A o \in cancel.outputs :
                /\ o.status = "Unconfirmed" => o.key_id \notin DOMAIN outputs'
                /\ o.status = "Locked" =>
                      /\ o.key_id \in DOMAIN outputs'
                      /\ outputs'[o.key_id].status = "Unspent"
           /\ id \in DOMAIN tx_log'
           /\ tx_log'[id].id = tx.id
           /\ tx.tx_type = "TxSent" => tx_log'[id].tx_type = "TxSentCancelled"
           /\ tx.tx_type = "TxReceived" =>
                 tx_log'[id].tx_type = "TxReceivedCancelled"]_vars

\* a cancellation has returned Ok for a sent transaction that had locked an
\* input and created a change output: the entry is TxSentCancelled, its input
\* is Unspent again and its change output is gone
C3_Witness ==
    /\ returned.op = "cancel"
    /\ returned.result = "Ok"
    /\ \E t \in TxLogIter(tx_log) :
         /\ t.tx_type = "TxSentCancelled"
         /\ t.num_inputs = 1
         /\ t.num_outputs = 1
         /\ \E o \in WalletIter(outputs) :
              o.tx_log_entry = Some(t.id) /\ o.status = "Unspent"
         /\ \A o \in WalletIter(outputs) :
              o.tx_log_entry = Some(t.id) => o.status = "Unspent"

\* the request of the reward call in flight pre-selects a key the wallet tracks
PreSelectedTracked(block_fees, outs) ==
    /\ block_fees.key_id # None
    /\ retrieve_existing_key(outs, block_fees.key_id[1])

\* C5: a reward request whose pre-selected key identifier is a tracked key
\* writes its output under that key: no key is allocated, the ledger holds the
\* same keys as before with one Unconfirmed coinbase output for that key, and
\* the CbData answer carries that key identifier.
C5_PreSelectedKeyReused ==
    [][/\ (/\ build.pc = "idle"
           /\ build'.pc = "proof"
           /\ PreSelectedTracked(build'.block_fees[1], outputs))
          => /\ build'.key_id = build'.block_fees[1].key_id
             /\ child_index' = child_index
             /\ DOMAIN outputs' = DOMAIN outputs
             /\ outputs'[build'.key_id[1]].status = "Unconfirmed"
             /\ outputs'[build'.key_id[1]].is_coinbase
       /\ (/\ build.pc = "proof"
           /\ Returns
           /\ returned'.result = "Ok")
          => /\ returned'.key_id = build.key_id
             /\ UNCHANGED <<outputs, child_index>>]_vars

\* a request pre-selecting a tracked key has written its output right after
\* a request that returned Ok for the same pre-selected tracked key
C5_Witness ==
    /\ build.pc = "proof"
    /\ PreSelectedTracked(build.block_fees[1], outputs)
    /\ returned.op = "build"
    /\ returned.result = "Ok"
    /\ returned.existing
    /\ returned.key_id = build.block_fees[1].key_id
    /\ returned.at = ops - 1
    /\ outputs[build.key_id[1]].status = "Unconfirmed"

\* C6: a pass that fails in get_chain_tip or get_outputs_from_node returns
\* the error in that step, with outputs, transaction log, log ids and last
\* confirmed height unchanged and no apply or cleanup step left to run.
C6_NodeFailureNoMutation ==
    [][(/\ Returns
        /\ returned'.failed \in {"get_chain_tip", "get_outputs_from_node"})
       => /\ returned'.op = "refresh"
          /\ returned'.result = "Err"
          /\ UNCHANGED ledger
          /\ refresh.pc = "idle"
          /\ refresh'.pc = "idle"]_vars

\* a pass has failed at the node on a ledger that holds an outstanding output
C6_Witness ==
    /\ returned.op = "refresh"
    /\ returned.failed = "get_outputs_from_node"
    /\ returned.at = ops - 1
    /\ \E o \in WalletIter(outputs) : o.status = "Unconfirmed"
    /\ last_confirmed_height["A"] < returned.height

\* C7 as stated: a call that has returned an error has written nothing.
C7_ErrorLeavesLedger ==
    returned.result = "Err" => ~returned.wrote

\* C7 amended: the step in which a call returns an error changes nothing in
\* the ledger, and the failed call has written before that step only when it
\* is a reward request failing at the proof (its output batch was committed)
\* or a pass failing in the cleanup step (its apply batch was committed).
C7_FailingBatchLeavesLedger ==
    [][(Returns /\ returned'.result = "Err") =>
        /\ UNCHANGED ledger
        /\ returned'.wrote =>
              \/ returned'.op = "build" /\ returned'.failed = "proof"
              \/ /\ returned'.op = "refresh"
                 /\ returned'.failed = "clean"
                 /\ returned'.gate = "open"]_vars

\* a reward request has failed at the proof and its output is in the ledger
C7_Witness ==
    /\ returned.result = "Err"
    /\ returned.op = "build"
    /\ returned.failed = "proof"
    /\ returned.wrote
    /\ \E o \in WalletIter(outputs) : RewardCandidate(o)

\* C11: every record of the output table sits under its own key identifier,
\* so the table holds one Output per key identifier; and a reward request
\* made with a tracked key replaces the record of that key: the table keeps
\* its keys, the record of that key is the new Unconfirmed coinbase output and
\* every other record is as it was.
C11_OneOutputPerKey ==
    /\ [](\A k \in DOMAIN outputs : outputs[k].key_id = k)
    /\ [][(/\ build.pc = "idle"
           /\ build'.pc = "proof"
           /\ PreSelectedTracked(build'.block_fees[1], outputs))
          => LET key_id == build'.block_fees[1].key_id[1] IN
             /\ DOMAIN outputs' = DOMAIN outputs
             /\ Cardinality({o \in WalletIter(outputs') : o.key_id = key_id}) = 1
             /\ outputs'[key_id].root_key_id = build'.parent_key_id
             /\ outputs'[key_id].height = build'.block_fees[1].height
             /\ \A k \in DOMAIN outputs \ {key_id} : outputs'[k] = outputs[k]]_vars

\* a reward request of account B made with the tracked key A/0 has returned
\* Ok: the table holds the one record of that key, now B's Unconfirmed output
C11_Witness ==
    /\ returned.op = "build"
    /\ returned.result = "Ok"
    /\ returned.existing
    /\ returned.key_id = Some(<<"A", 0>>)
    /\ DOMAIN outputs = {<<"A", 0>>}
    /\ outputs[<<"A", 0>>].root_key_id = "B"
    /\ outputs[<<"A", 0>>].status = "Unconfirmed"

\* the apply step of a pass commits its batch
ApplyCommits ==
    /\ refresh.pc = "apply"
    /\ refresh'.pc = "clean"
    /\ refresh'.gate = "open"

\* the coinbase outputs the apply step about to run confirms for the first
\* time: candidates the node reports whose record is Unconfirmed coinbase
NewlyConfirmedCoinbase ==
    {k \in DOMAIN outputs :
        /\ outputs[k].is_coinbase
        /\ outputs[k].status = "Unconfirmed"
        /\ \E c \in DOMAIN refresh.api_outputs : refresh.wallet_outputs[c] = k}

\* C12: every transaction-log entry sits under its account and id; and an
\* apply step gives each coinbase output it confirms a ConfirmedCoinbase entry
\* of its own, under an id no entry of the account had, crediting the value of
\* that output: the log grows by one entry per output confirmed.
C12_LogIdsUnique ==
    /\ [](\A key \in DOMAIN tx_log :
            tx_log[key].parent_key_id = key[1] /\ tx_log[key].id = key[2])
    /\ [][ApplyCommits =>
          /\ \A k \in NewlyConfirmedCoinbase :
               LET link == outputs'[k].tx_log_entry
                   key == <<refresh.parent_key_id, link[1]>>
               IN  /\ link # None
                   /\ key \notin DOMAIN tx_log
                   /\ key \in DOMAIN tx_log'
                   /\ tx_log'[key].tx_type = "ConfirmedCoinbase"
                   /\ tx_log'[key].amount_credited = outputs[k].value
                   /\ \A k2 \in NewlyConfirmedCoinbase \ {k} :
                        outputs'[k2].tx_log_entry # link
          /\ Cardinality(DOMAIN tx_log') =
                Cardinality(DOMAIN tx_log) + Cardinality(NewlyConfirmedCoinbase)]_vars

\* one apply step has confirmed two coinbase outputs: two ConfirmedCoinbase
\* entries of the pass in flight, each linked from its own Unspent output
C12_Witness ==
    /\ refresh.pc = "clean"
    /\ refresh.gate = "open"
    /\ \E t1, t2 \in TxLogIter(tx_log) :
         /\ t1.id # t2.id
         /\ \A t \in {t1, t2} :
              /\ t.tx_type = "ConfirmedCoinbase"
              /\ t.parent_key_id = refresh.parent_key_id
              /\ t.kernel_lookup_min_height = Some(refresh.height)
              /\ t.confirmation_ts = Some(refresh.started)
              /\ \E o \in WalletIter(outputs) :
                   /\ o.tx_log_entry = Some(t.id)
                   /\ o.status = "Unspent"
                   /\ o.value = t.amount_credited

\* =========================================== confirmation and invalidation
\* the candidates of the apply step about to run whose record is still in the
\* table, reported by the node or not
ReportedCandidates ==
    {c \in DOMAIN refresh.api_outputs : refresh.wallet_outputs[c] \in DOMAIN outputs}
UnreportedCandidates ==
    {c \in DOMAIN refresh.wallet_outputs \ DOMAIN refresh.api_outputs :
        refresh.wallet_outputs[c] \in DOMAIN outputs}

\* C18 as stated: an apply step leaves every candidate the node reports
\* Unspent, at the height the node reports.
C18_ReportedEndsUnspent ==
    [][ApplyCommits =>
        \A c \in ReportedCandidates :
           LET k == refresh.wallet_outputs[c] IN
           /\ outputs'[k].status = "Unspent"
           /\ outputs'[k].height = refresh.api_outputs[c]]_vars

\* C18: an apply step records the height the node reports on every candidate
\* the node reports, and leaves it Unspent when it was Unconfirmed or Unspent;
\* a reported candidate that is Locked stays Locked.
C18_ReportedConfirmedAtHeight ==
    [][ApplyCommits =>
        \A c \in ReportedCandidates :
           LET k == refresh.wallet_outputs[c] IN
           /\ outputs'[k].height = refresh.api_outputs[c]
           /\ outputs[k].status \in {"Unconfirmed", "Unspent"} =>
                 outputs'[k].status = "Unspent"
           /\ outputs[k].status = "Locked" => outputs'[k].status = "Locked"]_vars

\* an apply step has confirmed a reward output built for height 0 (its lock
\* height is 0 + maturity): it is Unspent at the height the node reported
C18_Witness ==
    /\ refresh.pc = "clean"
    /\ refresh.gate = "open"
    /\ \E c \in DOMAIN refresh.api_outputs :
         LET k == refresh.wallet_outputs[c] IN
         /\ k \in DOMAIN outputs
         /\ outputs[k].is_coinbase
         /\ outputs[k].lock_height = CoinbaseMaturity
         /\ outputs[k].status = "Unspent"
         /\ outputs[k].height = refresh.api_outputs[c]
         /\ outputs[k].height > 0

C20_OnlyCancelUnlocks ==
    [][/\ \A k \in DOMAIN outputs \cap DOMAIN outputs' :
             outputs[k].status = "Locked" /\ outputs'[k].status = "Unspent" =>
                /\ cancel.pc = "write"
                /\ cancel'.pc = "idle"
                /\ returned'.op = "cancel"
                /\ returned'.result = "Ok"
                /\ \E o \in cancel.outputs : o.key_id = k /\ o.status = "Locked"
       /\ ApplyCommits =>
             \A c \in ReportedCandidates :
                LET k == refresh.wallet_outputs[c] IN
                outputs[k].status = "Locked" => outputs'[k].status = "Locked"]_vars

\* an apply step has run over the Locked input of a payment that the node
\* reports: the input is still Locked
C20_Witness ==
    /\ refresh.pc = "clean"
    /\ refresh.gate = "open"
    /\ \E c \in DOMAIN refresh.api_outputs :
         LET k == refresh.wallet_outputs[c] IN
         /\ k \in DOMAIN outputs
         /\ outputs[k].status = "Locked"
         /\ outputs[k].height = refresh.api_outputs[c]
         /\ outputs[k].tx_log_entry # None
         /\ \E t \in TxLogIter(tx_log) :
              t.tx_type = "TxSent" /\ Some(t.id) = outputs[k].tx_log_entry

\* ============================================== who changes a status
\* a step of a reward request: its output batch commits or its proof is built
BuildStep == build' # build

\* C21: a step of build_coinbase or build_foundation leaves every output of
\* the ledger in the table and in the status it had.
C21_BuildKeepsStatus ==
    [][BuildStep =>
        \A k \in DOMAIN outputs :
           k \in DOMAIN outputs' /\ outputs'[k].status = outputs[k].status]_vars

\* ====================================================== candidate set
\* the query step of a pass hands its candidates to the node
QueryCommits == refresh.pc = "idle" /\ refresh'.pc = "apply"

\* the output is linked to an outstanding entry of the account: an
\* unconfirmed TxSent or TxReceived entry
LinkedToOutstanding(o, txs, parent_key_id) ==
    /\ o.tx_log_entry # None
    /\ \E t \in TxLogIter(txs) :
         /\ t.parent_key_id = parent_key_id
         /\ t.id = o.tx_log_entry[1]
         /\ ~t.confirmed
         /\ t.tx_type \in {"TxSent", "TxReceived"}

\* the outputs a step changes or removes
Modified == {k \in DOMAIN outputs : k \notin DOMAIN outputs' \/ outputs'[k] # outputs[k]}

UnlinkedOrOutstanding(o, txs, parent_key_id) ==
    o.tx_log_entry = None \/ LinkedToOutstanding(o, txs, parent_key_id)

CandidateKeys(r) == {r.wallet_outputs[c] : c \in DOMAIN r.wallet_outputs}

\* C23: a pass with update_all asks the node for exactly the outputs of the
\* account that are Unspent, Unconfirmed or Locked; its apply step changes
\* candidates only, and in a pass that runs alone no output that is Spent or
\* of another account.
C23_UpdateAllCandidates ==
    [][/\ QueryCommits /\ refresh'.update_all =>
             /\ CandidateKeys(refresh') =
                   {k \in DOMAIN outputs :
                       /\ outputs[k].root_key_id = refresh'.parent_key_id
                       /\ outputs[k].status \in {"Unspent", "Unconfirmed", "Locked"}}
             /\ DOMAIN refresh'.api_outputs \subseteq DOMAIN refresh'.wallet_outputs
       /\ ApplyCommits /\ refresh.update_all =>
             /\ Modified \subseteq CandidateKeys(refresh)
             /\ RefreshStepAlone =>
                   \A k \in DOMAIN outputs :
                      (outputs[k].status = "Spent"
                       \/ outputs[k].root_key_id # refresh.parent_key_id)
                         => k \in DOMAIN outputs' /\ outputs'[k] = outputs[k]]_vars

\* the apply step of a pass with update_all has run on an account that holds a
\* Spent output, beside an output of another account: neither was a candidate,
\* the account's Unspent output was
C23_Witness ==
    /\ refresh.pc = "clean"
    /\ refresh.gate = "open"
    /\ refresh.update_all
    /\ \E spent, other, own \in WalletIter(outputs) :
         /\ spent.root_key_id = refresh.parent_key_id
         /\ spent.status = "Spent"
         /\ other.root_key_id # refresh.parent_key_id
         /\ other.status = "Unconfirmed"
         /\ own.root_key_id = refresh.parent_key_id
         /\ own.status = "Unspent"
         /\ CandidateKeys(refresh) = {own.key_id}

\* =========================================== first confirmation and the log
\* the keys under which a step saves entries the log did not hold
NewEntries == DOMAIN tx_log' \ DOMAIN tx_log

\* C24: an apply step that confirms a coinbase output for the first time (the
\* record is Unconfirmed and the node reports it) leaves it Unspent and linked
\* to an entry the log did not hold before: a ConfirmedCoinbase entry of the
\* account, confirmed, crediting the value of the output, debiting nothing,
\* with one output; the step saves one such entry per output and no other.
C24_FirstCoinbaseConfirmation ==
    [][ApplyCommits =>
        /\ \A k \in NewlyConfirmedCoinbase :
             LET link == outputs'[k].tx_log_entry
                 key == <<refresh.parent_key_id, link[1]>>
             IN  /\ outputs'[k].status = "Unspent"
                 /\ link # None
                 /\ key \in NewEntries
                 /\ tx_log'[key].tx_type = "ConfirmedCoinbase"
                 /\ tx_log'[key].parent_key_id = refresh.parent_key_id
                 /\ tx_log'[key].confirmed
                 /\ tx_log'[key].amount_credited = outputs[k].value
                 /\ tx_log'[key].amount_debited = 0
                 /\ tx_log'[key].num_outputs = 1
                 /\ tx_log'[key].num_inputs = 0
                 /\ Cardinality({k2 \in DOMAIN outputs' :
                       /\ outputs'[k2].tx_log_entry = link
                       /\ outputs'[k2].root_key_id = outputs'[k].root_key_id}) = 1
        /\ NewEntries =
              {<<refresh.parent_key_id, outputs'[k].tx_log_entry[1]>> :
                  k \in NewlyConfirmedCoinbase}]_vars

\* an apply step has confirmed the output of a build_foundation request: it is
\* Unspent and linked to a confirmed ConfirmedCoinbase entry that credits the
\* foundation reward
C24_Witness ==
    /\ refresh.pc = "clean"
    /\ refresh.gate = "open"
    /\ \E o \in WalletIter(outputs) :
         /\ OutputCommit(o) \in DOMAIN refresh.api_outputs
         /\ o.is_coinbase
         /\ o.status = "Unspent"
         /\ o.value = FoundationReward
         /\ o.tx_log_entry # None
         /\ \E t \in TxLogIter(tx_log) :
              /\ t.parent_key_id = refresh.parent_key_id
              /\ Some(t.id) = o.tx_log_entry
              /\ t.tx_type = "ConfirmedCoinbase"
              /\ t.confirmed
              /\ t.amount_credited = FoundationReward
              /\ t.amount_debited = 0
              /\ t.num_outputs = 1
              /\ t.kernel_lookup_min_height = Some(refresh.height)

\* =========================================================== the gate
\* the apply step of a pass ends, committing, skipping or failing
ApplyStep == refresh.pc = "apply" /\ refresh' # refresh

\* C26: an apply step whose tip height is below the last confirmed height of
\* the account writes nothing and goes on as stale; one whose tip height is
\* equal or above never does: unless the batch fails it commits, in one step,
\* the candidates' updates and the tip height as last confirmed height.
C26_GateStrict ==
    [][ApplyStep =>
        LET lch == last_confirmed_height[refresh.parent_key_id] IN
        /\ refresh.height < lch =>
              /\ ledger' = ledger
              /\ refresh'.pc = "clean" => refresh'.gate = "stale"
        /\ refresh.height >= lch =>
              /\ refresh'.gate # "stale"
              /\ refresh'.pc = "clean" =>
                    /\ refresh'.gate = "open"
                    /\ last_confirmed_height'[refresh.parent_key_id] = refresh.height
                    /\ \A c \in ReportedCandidates :
                         outputs'[refresh.wallet_outputs[c]].height =
                            refresh.api_outputs[c]
                    /\ \A c \in UnreportedCandidates :
                         outputs'[refresh.wallet_outputs[c]].status = "Spent"
              /\ refresh'.pc = "idle" => ledger' = ledger]_vars

\* the first pass on the funded wallet, whose last confirmed height is 57, read
\* the tip 57: its apply step went through and marked the unreported output
\* Spent
C26_Witness ==
    /\ refresh.pc = "clean"
    /\ refresh.gate = "open"
    /\ refresh.started = 1
    /\ refresh.height = 57
    /\ refresh.wrote
    /\ last_confirmed_height[refresh.parent_key_id] = 57
    /\ DOMAIN outputs = {<<"A", 0>>}
    /\ outputs[<<"A", 0>>].status = "Spent"
    /\ \E t \in TxLogIter(tx_log) :
         t.tx_type = "ConfirmedCoinbase" /\ t.kernel_lookup_min_height = Some(57)

\* ============================================= one tip height per pass
\* C27: the tip height a pass reads at its start is the one it holds until it
\* ends; the output query is issued with that height already read (a pass that
\* fails at get_chain_tip has read none and mapped nothing, one that fails at
\* the query has its height); the gate compares that height and the apply
\* step saves that height as last confirmed height.
C27_TipReadOnceFirst ==
    [][/\ QueryCommits => refresh'.height \in TipHeights
       /\ (refresh.pc # "idle" /\ refresh'.pc # "idle") =>
             refresh'.height = refresh.height
       /\ (refresh.pc = "idle" /\ Returns /\ returned'.op = "refresh") =>
             /\ returned'.failed = "get_chain_tip" => returned'.height = 0
             /\ returned'.failed \in {"map_wallet_outputs", "get_outputs_from_node"}
                   => returned'.height \in TipHeights
       /\ (ApplyStep /\ refresh'.pc = "clean") =>
             /\ refresh'.gate = "stale" <=>
                   refresh.height < last_confirmed_height[refresh.parent_key_id]
             /\ refresh'.gate = "open" =>
                   last_confirmed_height'[refresh.parent_key_id] = refresh.height
       /\ (refresh.pc # "idle" /\ Returns /\ returned'.op = "refresh") =>
             returned'.height = refresh.height]_vars

\* a pass that read the tip 55 has returned Ok: the last confirmed height is
\* 55 and the entry of the reward it confirmed was logged at 55
C27_Witness ==
    /\ returned.op = "refresh"
    /\ returned.result = "Ok"
    /\ returned.gate = "open"
    /\ returned.height = 55
    /\ last_confirmed_height["A"] = 55
    /\ \E t \in TxLogIter(tx_log) :
         /\ t.tx_type = "ConfirmedCoinbase"
         /\ t.kernel_lookup_min_height = Some(55)

\* ================================== a reward request that fails late
\* the proof step of a reward request fails
ProofFails ==
    /\ build.pc = "proof"
    /\ build'.pc = "idle"
    /\ returned'.op = "build"
    /\ returned'.result = "Err"

\* C28: when the proof of a reward request fails, the output its batch wrote
\* is still in the ledger, Unconfirmed and coinbase, and the ledger is as the
\* batch left it; and an apply step to which the node reports an Unconfirmed
\* coinbase output turns it Unspent and logs its ConfirmedCoinbase entry.
C28_LateFailureKeepsOutput ==
    [][/\ ProofFails =>
             LET k == build.key_id[1] IN
             /\ outputs' = outputs
             /\ tx_log' = tx_log
             /\ k \in DOMAIN outputs'
             /\ outputs'[k].status = "Unconfirmed"
             /\ outputs'[k].is_coinbase
             /\ outputs'[k].height = build.block_fees[1].height
       /\ ApplyCommits =>
             \A k \in NewlyConfirmedCoinbase :
                /\ outputs'[k].status = "Unspent"
                /\ outputs'[k].tx_log_entry # None
                /\ \E key \in NewEntries :
                     /\ key = <<refresh.parent_key_id, outputs'[k].tx_log_entry[1]>>
                     /\ tx_log'[key].tx_type = "ConfirmedCoinbase"]_vars

\* the only call before the pass under way was a reward request on the empty
\* wallet that failed at its proof: the apply step found its output reported
\* and it is Unspent with its ConfirmedCoinbase entry
C28_Witness ==
    /\ returned.op = "build"
    /\ returned.result = "Err"
    /\ returned.failed = "proof"
    /\ refresh.pc = "clean"
    /\ refresh.gate = "open"
    /\ refresh.started = 2
    /\ Cardinality(DOMAIN outputs) = 1
    /\ Cardinality(DOMAIN tx_log) = 1
    /\ \A o \in WalletIter(outputs) :
         /\ o.is_coinbase
         /\ o.status = "Unspent"
         /\ OutputCommit(o) \in DOMAIN refresh.api_outputs
         /\ \E t \in TxLogIter(tx_log) :
              /\ Some(t.id) = o.tx_log_entry
              /\ t.tx_type = "ConfirmedCoinbase"
              /\ t.amount_credited = o.value

\* ============================================== what the cleanup touches
\* the cleanup step of a pass ends, committing or failing
CleanupStep == refresh.pc = "clean" /\ refresh' # refresh

\* C29: a cleanup step adds and changes no output, and every output it
\* deletes is Unconfirmed, coinbase and of a height above 0; it leaves the
\* transaction log, its id counters and the last confirmed heights alone.
C29_CleanupFrame ==
    [][CleanupStep =>
        /\ DOMAIN outputs' \subseteq DOMAIN outputs
        /\ \A k \in DOMAIN outputs :
             IF k \in DOMAIN outputs'
             THEN outputs'[k] = outputs[k]
             ELSE /\ outputs[k].status = "Unconfirmed"
                  /\ outputs[k].is_coinbase
                  /\ outputs[k].height > 0
        /\ tx_log' = tx_log
        /\ tx_log_id' = tx_log_id
        /\ last_confirmed_height' = last_confirmed_height]_vars

\* a pass at tip 57 has returned Ok: its cleanup deleted the reward the other
\* account had built at height 5 and kept the account's own Unspent output
C29_Witness ==
    /\ returned.op = "refresh"
    /\ returned.result = "Ok"
    /\ returned.height = 57
    /\ returned.deleted = {<<"B", 0>>}
    /\ DOMAIN outputs = {<<"A", 0>>}
    /\ outputs[<<"A", 0>>].status = "Unspent"
    /\ outputs[<<"A", 0>>].height = 5

\* ================================================ erasing a record
\* the outputs a step erases from the table
Erased == DOMAIN outputs \ DOMAIN outputs'

\* an entry of the output's account has the id the output is linked to
Referenced(o) ==
    /\ o.tx_log_entry # None
    /\ <<o.root_key_id, o.tx_log_entry[1]>> \in DOMAIN tx_log

\* the batch of a cancellation commits
CancelCommits ==
    /\ cancel.pc = "write"
    /\ cancel'.pc = "idle"
    /\ returned'.op = "cancel"
    /\ returned'.result = "Ok"

\* C30 as stated: only a cleanup step erases an output that an entry of the
\* log references, and it erases Unconfirmed coinbase outputs only.
C30_ReferencedNeverErased ==
    [][\A k \in Erased :
          Referenced(outputs[k]) =>
             /\ CleanupStep
             /\ outputs[k].status = "Unconfirmed"
             /\ outputs[k].is_coinbase]_vars

\* C30: a record is erased by a cleanup step, which takes Unconfirmed coinbase
\* outputs, or by the commit of a cancellation, which takes the outputs of
\* the cancelled entry it was handed as Unconfirmed, referenced though they
\* are; no other step erases a record.
C30_ErasedByCleanupOrCancel ==
    [][\A k \in Erased :
          \/ /\ CleanupStep
             /\ outputs[k].status = "Unconfirmed"
             /\ outputs[k].is_coinbase
          \/ /\ CancelCommits
             /\ \E o \in cancel.outputs :
                  /\ o.key_id = k
                  /\ o.status = "Unconfirmed"
                  /\ o.tx_log_entry = Some(cancel.tx[1].id)
                  /\ o.root_key_id = cancel.parent_key_id]_vars

\* a cancellation has returned Ok: the entry is TxReceivedCancelled with one
\* output, and the output it received is no longer in the table
C30_Witness ==
    /\ returned.op = "cancel"
    /\ returned.result = "Ok"
    /\ returned.wrote
    /\ \E t \in TxLogIter(tx_log) :
         /\ t.tx_type = "TxReceivedCancelled"
         /\ t.num_outputs = 1
         /\ \A o \in WalletIter(outputs) :
              ~(o.root_key_id = t.parent_key_id /\ o.tx_log_entry = Some(t.id))

\* ============================================== cancelling in place
\* the type cancel_tx_and_outputs leaves an entry of the given type with
CancelledType(tx_type) ==
    IF tx_type = "TxSent" THEN "TxSentCancelled"
    ELSE IF tx_type = "TxReceived" THEN "TxReceivedCancelled"
    ELSE tx_type

\* C31: no step removes an entry of the transaction log; the commit of a
\* cancellation adds none, leaves every other entry as it was, and leaves the
\* cancelled entry under its id with TxSent turned TxSentCancelled, TxReceived
\* turned TxReceivedCancelled and any other type kept.
C31_CancelInPlace ==
    [][/\ DOMAIN tx_log \subseteq DOMAIN tx_log'
       /\ CancelCommits =>
            LET id == <<cancel.parent_key_id, cancel.tx[1].id>> IN
            /\ DOMAIN tx_log' = DOMAIN tx_log
            /\ id \in DOMAIN tx_log
            /\ tx_log'[id].id = tx_log[id].id
            /\ tx_log'[id].parent_key_id = tx_log[id].parent_key_id
            /\ tx_log'[id].tx_type = CancelledType(tx_log[id].tx_type)
            /\ \A k \in DOMAIN tx_log \ {id} : tx_log'[k] = tx_log[k]]_vars

\* a second cancellation of a received transaction has returned Ok: the entry
\* was TxReceivedCancelled already and the call changed nothing, the log still
\* has its one entry under id 0
C31_Witness ==
    /\ returned.op = "cancel"
    /\ returned.result = "Ok"
    /\ ~returned.wrote
    /\ DOMAIN tx_log = {<<"A", 0>>}
    /\ tx_log[<<"A", 0>>].tx_type = "TxReceivedCancelled"
    /\ tx_log[<<"A", 0>>].id = 0

\* ============================================ last confirmed height
\* C33: no step lowers the last confirmed height of an account, whatever tip
\* heights the node answers from pass to pass; the apply step of a pass that
\* the gate lets through sets it to the tip height read at the start of the
\* pass, and the steps of a stale pass leave it as it was.
C33_LastConfirmedHeightMonotone ==
    [][/\ \A a \in Accounts : last_confirmed_height'[a] >= last_confirmed_height[a]
       /\ ApplyCommits =>
            last_confirmed_height'[refresh.parent_key_id] = refresh.height
       /\ (ApplyStep /\ refresh'.gate = "stale") =>
            last_confirmed_height' = last_confirmed_height]_vars

\* two passes on a new wallet: the first was applied at tip height 57, the
\* second read tip height 55 and was stale; the last confirmed height is 57
C33_Witness ==
    /\ returned.op = "refresh"
    /\ returned.result = "Ok"
    /\ returned.gate = "stale"
    /\ returned.height = 55
    /\ outputs = <<>>
    /\ last_confirmed_height["A"] = 57

\* ================================================ other accounts' outputs
\* C34: the apply step and the cleanup step of a pass that runs alone leave
\* every output of an account other than the one the pass reconciles in the
\* ledger and as it was.
C34_OtherAccountsUntouched ==
    [][RefreshStepAlone =>
         \A k \in DOMAIN outputs :
            outputs[k].root_key_id # refresh.parent_key_id =>
               /\ k \in DOMAIN outputs'
               /\ outputs'[k] = outputs[k]]_vars

\* =========================================== candidates removed meanwhile
\* the status the apply step leaves an output of the given status with
AppliedStatus(status, reported) ==
    IF reported
    THEN IF status = "Unconfirmed" THEN "Unspent" ELSE status
    ELSE IF status \in {"Unspent", "Unconfirmed", "Locked"} THEN "Spent"
         ELSE status

\* C35: the apply step adds no output to the ledger, so a candidate that a
\* cancellation deleted after the pass collected its candidates stays
\* deleted; and the status a candidate is left with is the one that follows
\* from its status in the ledger when the batch opens, whatever it was when
\* the candidates were collected.
C35_ApplyRereadsOutputs ==
    [][ApplyStep =>
        /\ DOMAIN outputs' = DOMAIN outputs
        /\ ApplyCommits =>
             \A c \in DOMAIN refresh.wallet_outputs :
                LET k == refresh.wallet_outputs[c] IN
                k \in DOMAIN outputs =>
                   outputs'[k].status =
                      AppliedStatus(outputs[k].status,
                                    c \in DOMAIN refresh.api_outputs)]_vars

\* a pass collected the received output A/0 as a candidate and the node
\* reported it; a cancellation of the receiving transaction deleted it before
\* the apply step, which then ran with the gate open: A/0 is not in the ledger
C35_Witness ==
    /\ refresh.pc = "clean"
    /\ refresh.gate = "open"
    /\ <<"A", 0>> \in CandidateKeys(refresh)
    /\ \E c \in DOMAIN refresh.api_outputs : refresh.wallet_outputs[c] = <<"A", 0>>
    /\ <<"A", 0>> \notin DOMAIN outputs
    /\ <<"A", 0>> \in DOMAIN tx_log
    /\ tx_log[<<"A", 0>>].tx_type = "TxReceivedCancelled"

\* ================================================= the confirmed flag
\* C36: an entry that is confirmed stays in the log and stays confirmed in
\* every step, of a pass or of a cancellation, however they interleave.
C36_ConfirmedStaysConfirmed ==
    [][\A k \in DOMAIN tx_log :
          tx_log[k].confirmed =>
             /\ k \in DOMAIN tx_log'
             /\ tx_log'[k].confirmed]_vars

\* ============================================================ retrieve_info
\* OutputData::num_confirmations(current_height)
num_confirmations(o, current_height) ==
    IF o.height > current_height THEN 0
    ELSE IF o.status = "Unconfirmed" THEN 0
    ELSE 1 + (current_height - o.height)

NoTotals ==
    [unspent_total |-> 0, immature_total |-> 0,
     awaiting_finalization_total |-> 0, unconfirmed_total |-> 0,
     locked_total |-> 0]

\* faulty variant: Unconfirmed coinbase outputs are counted like the others
InfoOne_CountsCoinbase(t, out, current_height, minimum_confirmations) ==
    IF out.status = "Unspent"
    THEN IF out.is_coinbase /\ out.lock_height > current_height
         THEN [t EXCEPT !.immature_total = @ + out.value]
         ELSE IF num_confirmations(out, current_height) < minimum_confirmations
         THEN [t EXCEPT !.unconfirmed_total = @ + out.value]
         ELSE [t EXCEPT !.unspent_total = @ + out.value]
    ELSE IF out.status = "Unconfirmed"
    THEN IF minimum_confirmations = 0
         THEN [t EXCEPT !.unconfirmed_total = @ + out.value]
         ELSE [t EXCEPT !.awaiting_finalization_total = @ + out.value]
    ELSE IF out.status = "Locked"
    THEN [t EXCEPT !.locked_total = @ + out.value]
    ELSE t

\* one iteration of the loop of retrieve_info: the match on out.status
InfoOne(t, out, current_height, minimum_confirmations) ==
    IF out.status = "Unspent"
    THEN IF out.is_coinbase /\ out.lock_height > current_height
         THEN [t EXCEPT !.immature_total = @ + out.value]
         ELSE IF num_confirmations(out, current_height) < minimum_confirmations
         THEN [t EXCEPT !.unconfirmed_total = @ + out.value]
         ELSE [t EXCEPT !.unspent_total = @ + out.value]
    ELSE IF out.status = "Unconfirmed"
    THEN IF ~out.is_coinbase
         THEN IF minimum_confirmations = 0
              THEN [t EXCEPT !.unconfirmed_total = @ + out.value]
              ELSE [t EXCEPT !.awaiting_finalization_total = @ + out.value]
         ELSE t
    ELSE IF out.status = "Locked"
    THEN [t EXCEPT !.locked_total = @ + out.value]
    ELSE t

RECURSIVE InfoLoop(_, _, _, _)
\* the loop of retrieve_info over the outputs of the account
InfoLoop(t, outs, current_height, minimum_confirmations) ==
    IF outs = {} THEN t
    ELSE LET out == CHOOSE o \in outs : TRUE IN
         InfoLoop(InfoOne(t, out, current_height, minimum_confirmations),
                  outs \ {out}, current_height, minimum_confirmations)

\* retrieve_info(wallet, parent_key_id, minimum_confirmations)
retrieve_info(outs, current_height, parent_key_id, minimum_confirmations) ==
    LET t == InfoLoop(NoTotals,
                      {out \in WalletIter(outs) : out.root_key_id = parent_key_id},
                      current_height, minimum_confirmations)
    IN  [last_confirmed_height |-> current_height,
         minimum_confirmations |-> minimum_confirmations,
         total |-> t.unspent_total + t.unconfirmed_total + t.immature_total,
         amount_awaiting_finalization |-> t.awaiting_finalization_total,
         amount_awaiting_confirmation |-> t.unconfirmed_total,
         amount_immature |-> t.immature_total,
         amount_locked |-> t.locked_total,
         amount_currently_spendable |-> t.unspent_total]

\* the outputs a wallet may hold under its first two keys: the first is worth
\* 1000, the second 1
InfoValues == <<1000, 1>>
InfoHeights == {10, 15}
InfoLockHeights == {0, 20}
InfoCurrentHeights == {10, 20}
MinimumConfirmations == {0, 1, 2, 12}

InfoOutputs(n) ==
    [root_key_id : Accounts, key_id : {<<"A", n>>}, n_child : {n},
     mmr_index : {None}, commit : {None}, value : {InfoValues[n + 1]},
     status : Statuses, height : InfoHeights, lock_height : InfoLockHeights,
     is_coinbase : BOOLEAN, tx_log_entry : {None}]

\* a wallet holding any one or two such outputs
InfoInit ==
    /\ ops = 0
    /\ \E first \in InfoOutputs(0) :
         \/ outputs = BatchSave(<<>>, first)
         \/ \E second \in InfoOutputs(1) :
              outputs = BatchSave(BatchSave(<<>>, first), second)
    /\ \E h \in InfoCurrentHeights :
         last_confirmed_height = [a \in Accounts |-> h]
    /\ tx_log = <<>>
    /\ tx_log_id = NewLedger.tx_log_id
    /\ child_index = [NewLedger.child_index EXCEPT !["A"] = 2]
    /\ refresh = NoRefresh
    /\ cancel = NoCancel
    /\ build = NoBuild
    /\ returned = Returned("none", "none", "none")

\* retrieve_info called for an account: wallet.last_confirmed_height() may
\* fail; nothing is written
RetrieveInfo(parent_key_id, minimum_confirmations) ==
    /\ \/ returned' = [op |-> "retrieve_info", result |-> "Err",
                       parent_key_id |-> parent_key_id,
                       minimum_confirmations |-> minimum_confirmations]
       \/ returned' = [op |-> "retrieve_info", result |-> "Ok",
                       parent_key_id |-> parent_key_id,
                       minimum_confirmations |-> minimum_confirmations,
                       info |-> retrieve_info(outputs,
                                              last_confirmed_height[parent_key_id],
                                              parent_key_id, minimum_confirmations)]
    /\ UNCHANGED <<outputs, tx_log, last_confirmed_height, tx_log_id,
                   child_index, refresh, cancel, build, ops>>

InfoNext ==
    \E a \in Accounts, m \in MinimumConfirmations : RetrieveInfo(a, m)

SpecInfo == InfoInit /\ [][InfoNext]_vars

\* the bucket the state of an output fixes
Bucket(o, current_height, minimum_confirmations) ==
    IF o.status = "Unspent"
    THEN IF o.is_coinbase /\ o.lock_height > current_height THEN "immature"
         ELSE IF num_confirmations(o, current_height) < minimum_confirmations
         THEN "awaiting_confirmation"
         ELSE "spendable"
    ELSE IF o.status = "Unconfirmed" /\ ~o.is_coinbase
    THEN IF minimum_confirmations = 0 THEN "awaiting_confirmation"
         ELSE "awaiting_finalization"
    ELSE IF o.status = "Locked" THEN "locked"
    ELSE "none"

RECURSIVE SumValues(_)
SumValues(outs) ==
    IF outs = {} THEN 0
    ELSE LET o == CHOOSE x \in outs : TRUE IN o.value + SumValues(outs \ {o})

\* the value of the outputs of the account retrieve_info answered for that
\* are in the given bucket
InBucket(bucket) ==
    SumValues({o \in WalletIter(outputs) :
                 /\ o.root_key_id = returned.parent_key_id
                 /\ Bucket(o, last_confirmed_height[returned.parent_key_id],
                           returned.minimum_confirmations) = bucket})

\* C13: each amount of the WalletInfo retrieve_info answers is the value of
\* the outputs of the account whose state puts them in that bucket; Spent,
\* Deleted and Unconfirmed coinbase outputs are in none.
C13_InfoBuckets ==
    (returned.op = "retrieve_info" /\ returned.result = "Ok") =>
        /\ returned.info.amount_immature = InBucket("immature")
        /\ returned.info.amount_awaiting_confirmation =
              InBucket("awaiting_confirmation")
        /\ returned.info.amount_awaiting_finalization =
              InBucket("awaiting_finalization")
        /\ returned.info.amount_currently_spendable = InBucket("spendable")
        /\ returned.info.amount_locked = InBucket("locked")
        /\ returned.info.last_confirmed_height =
              last_confirmed_height[returned.parent_key_id]

\* one Unspent output of 1000 at height 10, minimum_confirmations 0, current
\* height 10: spendable is 1000 and every other bucket is 0
C13_Witness ==
    /\ returned.op = "retrieve_info"
    /\ returned.result = "Ok"
    /\ returned.minimum_confirmations = 0
    /\ last_confirmed_height[returned.parent_key_id] = 10
    /\ \E o \in WalletIter(outputs) :
         /\ WalletIter(outputs) = {o}
         /\ o.root_key_id = returned.parent_key_id
         /\ o.status = "Unspent" /\ ~o.is_coinbase
         /\ o.value = 1000 /\ o.height = 10
    /\ returned.info.amount_currently_spendable = 1000
    /\ returned.info.amount_immature = 0
    /\ returned.info.amount_awaiting_confirmation = 0
    /\ returned.info.amount_awaiting_finalization = 0
    /\ returned.info.amount_locked = 0

\* ============================================================= retrieve_txs
TxTypes ==
    {"ConfirmedCoinbase", "TxReceived", "TxSent", "TxReceivedCancelled",
     "TxSentCancelled"}
SlateIds == {"s1", "s2"}

\* the entries a transaction log may hold under the given id
TxEntries(id) ==
    {[NewTxLogEntry(a, tx_type, id, id)
        EXCEPT !.confirmed = confirmed, !.tx_slate_id = tx_slate_id] :
       a \in Accounts, tx_type \in TxTypes, confirmed \in BOOLEAN,
       tx_slate_id \in {None} \cup {Some(u) : u \in SlateIds}}

\* a wallet whose transaction log holds any one or two such entries
TxsInit ==
    /\ ops = 0
    /\ \E first \in TxEntries(0) :
         \/ tx_log = SaveTxLogEntry(<<>>, first, first.parent_key_id)
         \/ \E id \in {0, 1} : \E second \in TxEntries(id) :
              /\ <<second.parent_key_id, id>> # <<first.parent_key_id, 0>>
              /\ tx_log = SaveTxLogEntry(
                              SaveTxLogEntry(<<>>, first, first.parent_key_id),
                              second, second.parent_key_id)
    /\ outputs = <<>>
    /\ last_confirmed_height = NewLedger.last_confirmed_height
    /\ tx_log_id = [a \in Accounts |-> 2]
    /\ child_index = NewLedger.child_index
    /\ refresh = NoRefresh
    /\ cancel = NoCancel
    /\ build = NoBuild
    /\ returned = Returned("none", "none", "none")

\* retrieve_txs called with any filters; nothing is written
RetrieveTxs(tx_id, tx_slate_id, parent_key_id, outstanding_only) ==
    /\ returned' = [op |-> "retrieve_txs", result |-> "Ok",
                    tx_id |-> tx_id, tx_slate_id |-> tx_slate_id,
                    parent_key_id |-> parent_key_id,
                    outstanding_only |-> outstanding_only,
                    txs |-> retrieve_txs(tx_log, tx_id, tx_slate_id,
                                         parent_key_id, outstanding_only)]
    /\ UNCHANGED <<outputs, tx_log, last_confirmed_height, tx_log_id,
                   child_index, refresh, cancel, build, ops>>

TxsNext ==
    \E tx_id \in {None, Some(0), Some(1)},
       tx_slate_id \in {None, Some("s1")},
       parent_key_id \in {None} \cup {Some(a) : a \in Accounts},
       outstanding_only \in BOOLEAN :
         RetrieveTxs(tx_id, tx_slate_id, parent_key_id, outstanding_only)

SpecTxs == TxsInit /\ [][TxsNext]_vars

\* the entry satisfies the filters of the retrieve_txs call that returned
SatisfiesFilters(t) ==
    /\ returned.parent_key_id = None \/ returned.parent_key_id = Some(t.parent_key_id)
    /\ returned.tx_id = None \/ returned.tx_id = Some(t.id)
    /\ returned.tx_slate_id = None \/ returned.tx_slate_id = t.tx_slate_id
    /\ \/ ~returned.outstanding_only
       \/ ~t.confirmed /\ t.tx_type \in {"TxSent", "TxReceived"}

\* C14: retrieve_txs answers exactly the entries of the log that satisfy
\* every supplied filter; with outstanding_only no entry it answers is
\* confirmed, cancelled or a ConfirmedCoinbase entry.
C14_RetrieveTxsFilters ==
    returned.op = "retrieve_txs" =>
        /\ \A t \in TxLogIter(tx_log) : t \in returned.txs <=> SatisfiesFilters(t)
        /\ returned.txs \subseteq TxLogIter(tx_log)
        /\ returned.outstanding_only =>
              \A t \in returned.txs :
                 /\ ~t.confirmed
                 /\ t.tx_type \notin {"ConfirmedCoinbase", "TxSentCancelled",
                                      "TxReceivedCancelled"}

\* an outstanding_only call on a log that holds an unconfirmed TxReceived
\* entry and an unconfirmed ConfirmedCoinbase entry of the account answered
\* the first alone
C14_Witness ==
    /\ returned.op = "retrieve_txs"
    /\ returned.outstanding_only
    /\ returned.parent_key_id = Some("A")
    /\ returned.tx_id = None
    /\ returned.tx_slate_id = None
    /\ \E t1, t2 \in TxLogIter(tx_log) :
         /\ t1.parent_key_id = "A" /\ t2.parent_key_id = "A"
         /\ t1.tx_type = "TxReceived" /\ ~t1.confirmed
         /\ t2.tx_type = "ConfirmedCoinbase" /\ ~t2.confirmed
         /\ returned.txs = {t1}

\* ================================================================ slates
\* foreign_rpc.rs: receive_tx and finalize_invoice_tx of ForeignRpc, over the
\* slate protocol of the wallet core.

\* the encodings a VersionedSlate comes in
SlateVersions == {"V2", "V3"}
\* protocol numbers the encodings declare in version_info
VersionNumber == [V2 |-> 2, V3 |-> 3]
\* participant counts a slate may declare; the protocol works with two
ParticipantCounts == {2, 3}
\* public blind-excess points the counterparty may contribute
CounterpartyExcesses == {2, 3}
\* this wallet's public blind-excess point, and the public nonce of an entry
OwnExcess == 5
PublicNonce == 11
\* time-to-live cutoff heights a slate may carry
TtlCutoffHeights == {None, Some(9)}
\* messages receive_tx may be given
Messages == {None, Some("Thanks")}
\* accounts receive_tx may name; None is the default account
DestAcctNames == {None, Some("B")}

\* the partial signature of the participant who contributes these points
PartialSig(id, public_blind_excess, public_nonce) ==
    100 * (id + 1) + public_blind_excess + public_nonce

ParticipantData(id, public_blind_excess, part_sig, message) ==
    [id |-> id, public_blind_excess |-> public_blind_excess,
     public_nonce |-> PublicNonce, part_sig |-> part_sig,
     message |-> message,
     message_sig |-> IF message = None THEN None
                     ELSE Some(<<message[1], public_blind_excess>>)]

\* the canonical slate; a kernel excess and signature of 0 are the all-zero
\* placeholders of a transaction that is not finalized
NewSlate(num_participants, participant_data, ttl_cutoff_height, version) ==
    [id |-> "s1", num_participants |-> num_participants,
     amount |-> CHOOSE a \in SlateAmounts : TRUE,
     height |-> CHOOSE h \in SlateHeights : TRUE,
     ttl_cutoff_height |-> ttl_cutoff_height,
     participant_data |-> participant_data,
     excess |-> 0, excess_sig |-> 0,
     version_info |-> [version |-> VersionNumber[version],
                       orig_version |-> VersionNumber[version]]]

\* VersionedSlate::into_version: the V2 encoding has no time-to-live field
into_version(slate, version) ==
    [version |-> version,
     slate |-> IF version = "V2"
               THEN [f \in DOMAIN slate \ {"ttl_cutoff_height"} |-> slate[f]]
               ELSE slate]

\* VersionedSlate::version
SlateVersion(in_slate) == in_slate.version

\* Slate::from(VersionedSlate): a V2 slate has no time-to-live cutoff
SlateFrom(in_slate) ==
    IF in_slate.version = "V2"
    THEN [f \in DOMAIN in_slate.slate \cup {"ttl_cutoff_height"} |->
             IF f = "ttl_cutoff_height" THEN None ELSE in_slate.slate[f]]
    ELSE in_slate.slate

\* indices of the entries that carry a partial signature
Signed(participant_data) ==
    {i \in 1 .. Len(participant_data) : participant_data[i].part_sig # None}

\* a slate is complete when as many entries carry a partial signature as it
\* declares participants
IsComplete(slate) ==
    Cardinality(Signed(slate.participant_data)) = slate.num_participants

RECURSIVE commit_sum(_)
\* sum of the public blind-excess points of the entries
commit_sum(participant_data) ==
    IF participant_data = <<>> THEN 0
    ELSE Head(participant_data).public_blind_excess
         + commit_sum(Tail(participant_data))

RECURSIVE SumPartSigs(_)
\* the aggregate of the partial signatures
SumPartSigs(participant_data) ==
    IF participant_data = <<>> THEN 0
    ELSE Head(participant_data).part_sig[1] + SumPartSigs(Tail(participant_data))

\* what a call of the core answers
CoreOk(slate) == [result |-> "Ok", slate |-> slate, error |-> "none"]
CoreErr(slate, error) == [result |-> "Err", slate |-> slate, error |-> error]

\* finalize that combines whatever signatures there are
finalize_Unchecked(slate) ==
    CoreOk([slate EXCEPT
        !.excess = commit_sum(slate.participant_data),
        !.excess_sig = SumPartSigs(SelectSeq(slate.participant_data,
                                    LAMBDA p : p.part_sig # None))])

\* finalize: valid only once every declared participant has contributed a
\* partial signature; the kernel excess is the sum of the public blind
\* excesses, the kernel signature the aggregate of the partial signatures
finalize(slate) ==
    IF ~IsComplete(slate)
    THEN CoreErr(slate, "IncompleteParticipantData")
    ELSE CoreOk([slate EXCEPT
             !.excess = commit_sum(slate.participant_data),
             !.excess_sig = SumPartSigs(slate.participant_data)])

\* this wallet signs its own entry, once every declared participant has
\* contributed its points
fill_round_2(slate, participant_id) ==
    LET pd == slate.participant_data IN
    IF Len(pd) # slate.num_participants THEN slate
    ELSE [slate EXCEPT !.participant_data =
            [i \in 1 .. Len(pd) |->
                IF pd[i].id = participant_id /\ pd[i].part_sig = None
                THEN [pd[i] EXCEPT !.part_sig =
                        Some(PartialSig(pd[i].id, pd[i].public_blind_excess,
                                        pd[i].public_nonce))]
                ELSE pd[i]]]

\* Foreign::finalize_invoice_tx: the issuer of the invoice is participant 1
Foreign_finalize_invoice_tx(slate) == finalize(fill_round_2(slate, 1))

\* the declared participant count is supported and an entry is free
SlateSupported(slate) ==
    /\ slate.num_participants = 2
    /\ Len(slate.participant_data) < slate.num_participants

\* receive that answers its own entry alone
receive_DropsSender(slate, message) ==
    IF ~SlateSupported(slate) THEN CoreErr(slate, "UnsupportedSlate")
    ELSE CoreOk([slate EXCEPT !.participant_data =
            <<ParticipantData(Len(@), OwnExcess,
                Some(PartialSig(Len(@), OwnExcess, PublicNonce)), message)>>])

\* receive: adds this wallet's ParticipantData entry, with its partial
\* signature and the optional message; does not finalize
receive(slate, message) ==
    IF ~SlateSupported(slate) THEN CoreErr(slate, "UnsupportedSlate")
    ELSE CoreOk([slate EXCEPT !.participant_data =
            Append(@, ParticipantData(Len(@), OwnExcess,
                Some(PartialSig(Len(@), OwnExcess, PublicNonce)), message))])

\* the account Foreign::receive_tx receives into
DestAccount(dest_acct_name) ==
    IF dest_acct_name = None THEN "A" ELSE dest_acct_name[1]

\* what an operation of the RPC boundary answers
RpcOk(versioned) == [result |-> "Ok", response |-> Some(versioned), error |-> None]
RpcErr(kind) == [result |-> "Err", response |-> None, error |-> Some(kind)]

\* receive_tx answering in the version the core works in
ForeignRpc_receive_tx_CanonicalVersion(in_slate, dest_acct_name, message) ==
    LET slate_from == SlateFrom(in_slate)
        out_slate == receive(slate_from, message)
    IN  IF out_slate.result = "Err" THEN RpcErr(out_slate.error)
        ELSE RpcOk(into_version(out_slate.slate, "V3"))

\* ForeignRpc::receive_tx
ForeignRpc_receive_tx(in_slate, dest_acct_name, message) ==
    LET version == SlateVersion(in_slate)
        slate_from == SlateFrom(in_slate)
        out_slate == receive(slate_from, message)
    IN  IF out_slate.result = "Err" THEN RpcErr(out_slate.error)
        ELSE RpcOk(into_version(out_slate.slate, version))

\* ForeignRpc::finalize_invoice_tx
ForeignRpc_finalize_invoice_tx(in_slate) ==
    LET version == SlateVersion(in_slate)
        out_slate == Foreign_finalize_invoice_tx(SlateFrom(in_slate))
    IN  IF out_slate.result = "Err" THEN RpcErr(out_slate.error)
        ELSE RpcOk(into_version(out_slate.slate, version))

\* slates a sender starts: its own entry, not signed
SentSlates ==
    {NewSlate(n, <<ParticipantData(0, b0, None, None)>>, ttl, v) :
        n \in ParticipantCounts, b0 \in CounterpartyExcesses,
        ttl \in TtlCutoffHeights, v \in SlateVersions}

\* invoices of this wallet that come back from the payer, who is participant
\* 0 and has signed or not
InvoiceSlates ==
    {NewSlate(n, <<ParticipantData(1, OwnExcess, None, None),
                   ParticipantData(0, b0,
                       IF signed THEN Some(PartialSig(0, b0, PublicNonce))
                       ELSE None, None)>>, ttl, v) :
        n \in ParticipantCounts, b0 \in CounterpartyExcesses,
        signed \in BOOLEAN, ttl \in TtlCutoffHeights, v \in SlateVersions}

\* a slate arrives, in the encoding its version_info declares
SlateInit ==
    /\ ops = 0
    /\ \E s \in SentSlates \cup InvoiceSlates, v \in SlateVersions :
         /\ VersionNumber[v] = s.version_info.version
         /\ returned = [op |-> "none", result |-> "none", request |-> None,
                        response |-> None, error |-> None,
                        slate |-> into_version(s, v), at |-> 0]
    /\ outputs = NewLedger.outputs
    /\ tx_log = NewLedger.tx_log
    /\ last_confirmed_height = NewLedger.last_confirmed_height
    /\ tx_log_id = NewLedger.tx_log_id
    /\ child_index = NewLedger.child_index
    /\ refresh = NoRefresh
    /\ cancel = NoCancel
    /\ build = NoBuild

\* receive_tx on the slate in flight: the answer travels on; a received slate
\* leaves an Unconfirmed output and a TxReceived entry in the account
ReceiveTxRpc(dest_acct_name, message) ==
    LET in_slate == returned.slate
        parent_key_id == DestAccount(dest_acct_name)
        answer == ForeignRpc_receive_tx(in_slate, dest_acct_name, message)
        slate == SlateFrom(in_slate)
    IN
    /\ ops < MaxOps
    /\ child_index[parent_key_id] < MaxChild
    /\ ops' = ops + 1
    /\ returned' = [op |-> "receive_tx", result |-> answer.result,
                    request |-> Some(in_slate), response |-> answer.response,
                    error |-> answer.error,
                    slate |-> IF answer.result = "Ok" THEN answer.response[1]
                              ELSE in_slate,
                    at |-> ops]
    /\ IF answer.result = "Ok"
       THEN LET key_id == <<parent_key_id, child_index[parent_key_id]>>
                log_id == tx_log_id[parent_key_id]
                t == [NewTxLogEntry(parent_key_id, "TxReceived", log_id, ops)
                        EXCEPT !.tx_slate_id = Some(slate.id),
                               !.amount_credited = slate.amount,
                               !.num_outputs = 1]
            IN
            /\ outputs' = BatchSave(outputs,
                  [root_key_id |-> parent_key_id, key_id |-> key_id,
                   n_child |-> key_id[2], mmr_index |-> None,
                   commit |-> Some(Commit(slate.amount, key_id)),
                   value |-> slate.amount, status |-> "Unconfirmed",
                   height |-> slate.height, lock_height |-> 0,
                   is_coinbase |-> FALSE, tx_log_entry |-> Some(log_id)])
            /\ tx_log' = SaveTxLogEntry(tx_log, t, parent_key_id)
            /\ tx_log_id' = [tx_log_id EXCEPT ![parent_key_id] = log_id + 1]
            /\ child_index' = [child_index EXCEPT ![parent_key_id] = @ + 1]
       ELSE UNCHANGED <<outputs, tx_log, tx_log_id, child_index>>
    /\ UNCHANGED <<last_confirmed_height, refresh, cancel, build>>

\* finalize_invoice_tx on the slate in flight; the outputs of the invoice
\* stay as they are
FinalizeInvoiceTxRpc ==
    LET in_slate == returned.slate
        answer == ForeignRpc_finalize_invoice_tx(in_slate)
    IN
    /\ ops < MaxOps
    /\ ops' = ops + 1
    /\ returned' = [op |-> "finalize_invoice_tx", result |-> answer.result,
                    request |-> Some(in_slate), response |-> answer.response,
                    error |-> answer.error,
                    slate |-> IF answer.result = "Ok" THEN answer.response[1]
                              ELSE in_slate,
                    at |-> ops]
    /\ UNCHANGED <<outputs, tx_log, last_confirmed_height, tx_log_id,
                   child_index, refresh, cancel, build>>

\* the counterparty, participant 0, signs the slate in flight out of band; a
\* partial signature needs the points of every participant
CounterpartySigns ==
    LET in_slate == returned.slate
        slate == SlateFrom(in_slate)
    IN
    /\ Len(slate.participant_data) = slate.num_participants
    /\ \E i \in 1 .. Len(slate.participant_data) :
         /\ slate.participant_data[i].id = 0
         /\ slate.participant_data[i].part_sig = None
    /\ returned' = [returned EXCEPT !.slate =
            into_version(fill_round_2(slate, 0), SlateVersion(in_slate))]
    /\ UNCHANGED <<outputs, tx_log, last_confirmed_height, tx_log_id,
                   child_index, refresh, cancel, build, ops>>

SlateNext ==
    \/ \E dest_acct_name \in DestAcctNames, message \in Messages :
         ReceiveTxRpc(dest_acct_name, message)
    \/ FinalizeInvoiceTxRpc
    \/ CounterpartySigns

SpecSlate == SlateInit /\ [][SlateNext]_vars

\* the canonical slates of the call that returned
RequestSlate == SlateFrom(returned.request[1])
ResponseSlate == SlateFrom(returned.response[1])

\* every declared participant has an entry in the slate, and every entry but
\* that of participant 1, this wallet, carries a partial signature
OthersSigned(slate) ==
    /\ Len(slate.participant_data) = slate.num_participants
    /\ \A i \in 1 .. Len(slate.participant_data) :
         slate.participant_data[i].id # 1 =>
            slate.participant_data[i].part_sig # None

C16_ReceiveAddsOneEntry ==
    returned.op = "receive_tx" /\ returned.result = "Ok" =>
        LET in == RequestSlate.participant_data
            out == ResponseSlate.participant_data
        IN
        /\ Len(out) = Len(in) + 1
        /\ \A i \in 1 .. Len(in) : out[i] = in[i] /\ out[i].part_sig = None
        /\ out[Len(out)].part_sig # None
        /\ out[Len(out)].public_blind_excess = OwnExcess
        /\ \A i \in 1 .. Len(in) : out[Len(out)].id # in[i].id
        /\ ResponseSlate.excess = 0
        /\ ResponseSlate.excess_sig = 0
        /\ ~IsComplete(ResponseSlate)

\* a slate of a sender who contributed the point 3 was received with a
\* message: the answer holds the sender's entry and this wallet's signed one
C16_Witness ==
    /\ returned.op = "receive_tx"
    /\ returned.result = "Ok"
    /\ Len(RequestSlate.participant_data) = 1
    /\ Len(ResponseSlate.participant_data) = 2
    /\ ResponseSlate.participant_data[1].public_blind_excess = 3
    /\ ResponseSlate.participant_data[1].part_sig = None
    /\ ResponseSlate.participant_data[2].id = 1
    /\ ResponseSlate.participant_data[2].message = Some("Thanks")
    /\ ResponseSlate.participant_data[2].part_sig # None

\* C17: receive_tx and finalize_invoice_tx answer a VersionedSlate of the
\* version of the VersionedSlate they were given; when the core fails they
\* answer the error kind and no slate.
C17_AnswersInCallerVersion ==
    returned.op \in {"receive_tx", "finalize_invoice_tx"} =>
        /\ returned.result = "Ok" =>
              /\ returned.response # None
              /\ returned.error = None
              /\ SlateVersion(returned.response[1]) = SlateVersion(returned.request[1])
        /\ returned.result = "Err" =>
              /\ returned.response = None
              /\ returned.error # None

\* a V2 slate was received and answered as V2, and a call on that answer
\* failed with an error kind and no slate
C17_Witness ==
    /\ returned.op = "receive_tx"
    /\ returned.result = "Err"
    /\ returned.response = None
    /\ returned.error = Some("UnsupportedSlate")
    /\ SlateVersion(returned.request[1]) = "V2"
    /\ Len(SlateFrom(returned.request[1]).participant_data) = 2
    /\ SlateFrom(returned.request[1]).participant_data[2].part_sig # None
    /\ Cardinality(DOMAIN outputs) = 1

\* ======================================================= apply_api_outputs
\* apply_api_outputs on wallets whose transaction log may lack the entry an
\* output names (a wallet file restored or written without it).

\* the transaction output under key A/0: any live status, any link
PlainOutputs ==
    {[root_key_id |-> "A", key_id |-> <<"A", 0>>, n_child |-> 0,
      mmr_index |-> None, commit |-> Some(Commit(7, <<"A", 0>>)), value |-> 7,
      status |-> status, height |-> 0, lock_height |-> 0,
      is_coinbase |-> FALSE, tx_log_entry |-> link] :
        status \in {"Unconfirmed", "Unspent", "Locked"},
        link \in {None, Some(0), Some(1)}}

\* what key A/1 may hold beside it: a reward or a received output, Unconfirmed
SecondOutputs ==
    {CoinbaseOutput("A", <<"A", 1>>, reward(1, 0), 0),
     [root_key_id |-> "A", key_id |-> <<"A", 1>>, n_child |-> 1,
      mmr_index |-> None, commit |-> Some(Commit(7, <<"A", 1>>)), value |-> 7,
      status |-> "Unconfirmed", height |-> 0, lock_height |-> 0,
      is_coinbase |-> FALSE, tx_log_entry |-> Some(1)]}

\* the entries the log may hold under an account and id
ApplyEntries(parent_key_id, id) ==
    {[NewTxLogEntry(parent_key_id, tx_type, id, 0)
        EXCEPT !.confirmed = confirmed, !.amount_credited = 7,
               !.num_outputs = 1] :
        tx_type \in {"TxReceived", "TxSent"}, confirmed \in BOOLEAN}

\* logs: the entry A/0 may be there or not, so may A/1; the other account has
\* an outstanding entry under id 0
ApplyLogs ==
    LET other == SaveTxLogEntry(<<>>,
                    [NewTxLogEntry("B", "TxReceived", 0, 0)
                        EXCEPT !.amount_credited = 7, !.num_outputs = 1], "B")
        first == {other} \cup
                 {SaveTxLogEntry(other, t, "A") : t \in ApplyEntries("A", 0)}
    IN  first \cup
        {SaveTxLogEntry(txs, NewTxLogEntry("A", "TxReceived", 1, 0), "A") :
            txs \in first}

\* a pass with update_all stands before its apply step: the candidates are
\* mapped and the node has answered
ApplyInit ==
    /\ ops = 1
    /\ \E plain \in PlainOutputs, txs \in ApplyLogs :
         /\ \/ outputs = BatchSave(<<>>, plain)
            \/ \E second \in SecondOutputs :
                 outputs = BatchSave(BatchSave(<<>>, plain), second)
         /\ tx_log = txs
    /\ \E l \in {NewLedger, FundedLedger} :
         last_confirmed_height = l.last_confirmed_height
    /\ tx_log_id = [a \in Accounts |-> 2]
    /\ child_index = [a \in Accounts |-> MaxChild]
    /\ \E height \in TipHeights :
         LET wallet_outputs == map_wallet_outputs(outputs, tx_log, "A", TRUE) IN
         \E reported \in SUBSET DOMAIN wallet_outputs :
            \E api_outputs \in [reported -> ReportHeights] :
               refresh = [pc |-> "apply", parent_key_id |-> "A",
                          update_all |-> TRUE, height |-> height,
                          wallet_outputs |-> wallet_outputs,
                          api_outputs |-> api_outputs,
                          gate |-> "none", wrote |-> FALSE, started |-> 1]
    /\ cancel = NoCancel
    /\ build = NoBuild
    /\ returned = Returned("none", "none", "none")

ApplyNext == RefreshApply \/ RefreshClean

SpecApply == ApplyInit /\ [][ApplyNext]_vars

\* the transaction outputs the apply step about to run confirms for the first
\* time: reported candidates whose record is Unconfirmed and not coinbase
NewlyConfirmedPlain ==
    {k \in DOMAIN outputs :
        /\ ~outputs[k].is_coinbase
        /\ outputs[k].status = "Unconfirmed"
        /\ \E c \in DOMAIN refresh.api_outputs : refresh.wallet_outputs[c] = k}

\* the log keys those outputs name in the account of the pass
NamedEntries ==
    {<<refresh.parent_key_id, outputs[k].tx_log_entry[1]>> :
        k \in {x \in NewlyConfirmedPlain : outputs[x].tx_log_entry # None}}

\* C25: an apply step that confirms a transaction output for the first time
\* leaves it Unspent at the reported height, whether the log holds the entry
\* it names or not; the entry of the account under the id the output names,
\* when there is one, is confirmed and otherwise as it was; every other entry
\* of the log is as it was.
C25_OriginatingEntryConfirmed ==
    [][ApplyCommits =>
        /\ \A k \in NewlyConfirmedPlain :
             /\ outputs'[k].status = "Unspent"
             /\ outputs'[k].tx_log_entry = outputs[k].tx_log_entry
             /\ \E c \in DOMAIN refresh.api_outputs :
                  /\ refresh.wallet_outputs[c] = k
                  /\ outputs'[k].height = refresh.api_outputs[c]
        /\ \A key \in DOMAIN tx_log :
             /\ key \in DOMAIN tx_log'
             /\ IF key \in NamedEntries
                THEN /\ tx_log'[key].confirmed
                     /\ tx_log'[key].confirmation_ts # None
                     /\ [tx_log'[key] EXCEPT !.confirmed = FALSE,
                                             !.confirmation_ts = None]
                        = [tx_log[key] EXCEPT !.confirmed = FALSE,
                                              !.confirmation_ts = None]
                ELSE tx_log'[key] = tx_log[key]]_vars

\* an apply step has confirmed two transaction outputs: the TxReceived entry
\* the first names is confirmed; the log has no entry of the account under the
\* id the second names, and the entry of the other account is as it was
C25_Witness ==
    /\ refresh.pc = "clean"
    /\ refresh.gate = "open"
    /\ Cardinality(DOMAIN refresh.api_outputs) = 2
    /\ \A k \in DOMAIN outputs :
         ~outputs[k].is_coinbase /\ outputs[k].status = "Unspent"
    /\ outputs[<<"A", 0>>].tx_log_entry = Some(0)
    /\ outputs[<<"A", 1>>].tx_log_entry = Some(1)
    /\ <<"A", 0>> \in DOMAIN tx_log
    /\ tx_log[<<"A", 0>>].tx_type = "TxReceived"
    /\ tx_log[<<"A", 0>>].confirmed
    /\ tx_log[<<"A", 0>>].confirmation_ts # None
    /\ <<"A", 1>> \notin DOMAIN tx_log
    /\ ~tx_log[<<"B", 0>>].confirmed

\* ==================================================== output commitments
\* a stored commitment string util::from_hex cannot decode
BadHex == <<"zz">>
\* a key identifier the keychain fails to derive a key for
InvalidKeyId == <<"X", 0>>

\* util::from_hex(c) is Ok
from_hex_Ok(c) == c # BadHex

\* keychain.commit(value, key_id, SwitchCommitmentType::Regular) is Ok
keychain_commit_Ok(value, key_id) == key_id # InvalidKeyId

\* the `match output.commit.clone()` of retrieve_outputs and
\* map_wallet_outputs: both arms end in unwrap(), which panics on an Err
ResolveCommit(o) ==
    IF o.commit # None
    THEN IF from_hex_Ok(o.commit[1])
         THEN [panic |-> FALSE, commit |-> o.commit[1]]
         ELSE [panic |-> TRUE, commit |-> None]
    ELSE IF keychain_commit_Ok(o.value, o.key_id)
         THEN [panic |-> FALSE, commit |-> Commit(o.value, o.key_id)]
         ELSE [panic |-> TRUE, commit |-> None]

\* the outputs map_wallet_outputs resolves the commitment of
MapSelected(outs, txs, parent_key_id, update_all) ==
    LET unspents == {x \in WalletIter(outs) :
                        x.root_key_id = parent_key_id /\ x.status # "Spent"}
        tx_entries == retrieve_txs(txs, None, None, Some(parent_key_id), TRUE)
    IN  IF update_all THEN unspents
        ELSE {x \in unspents :
                IF x.tx_log_entry # None
                THEN \E te \in tx_entries : te.id = x.tx_log_entry[1]
                ELSE TRUE}

\* the records a wallet may hold under the given key identifier: with no
\* stored commitment, with the commitment of its key, or with one that does
\* not decode
CommitOutputs(key_id) ==
    {[root_key_id |-> "A", key_id |-> key_id, n_child |-> key_id[2],
      mmr_index |-> None, commit |-> commit, value |-> 7, status |-> status,
      height |-> 5, lock_height |-> 0, is_coinbase |-> FALSE,
      tx_log_entry |-> None] :
        commit \in {None, Some(Commit(7, key_id)), Some(BadHex)},
        status \in {"Unspent", "Spent"}}

\* a wallet holding any records under two valid key identifiers and one the
\* keychain fails on
CommitInit ==
    /\ ops = 0
    /\ \E held \in SUBSET {<<"A", 0>>, <<"A", 1>>, InvalidKeyId} :
         \E recs \in [held -> UNION {CommitOutputs(k) : k \in held}] :
            /\ \A k \in held : recs[k] \in CommitOutputs(k)
            /\ outputs = recs
    /\ tx_log = <<>>
    /\ last_confirmed_height = NewLedger.last_confirmed_height
    /\ tx_log_id = NewLedger.tx_log_id
    /\ child_index = [a \in Accounts |-> MaxChild]
    /\ refresh = NoRefresh
    /\ cancel = NoCancel
    /\ build = NoBuild
    /\ returned = Returned("none", "none", "none")

\* retrieve_outputs without history: Ok with the mappings, or the panic of
\* the first unwrap() that meets an Err
RetrieveOutputsCall(show_spent, parent_key_id) ==
    LET selected == retrieve_outputs(outputs, show_spent, None, parent_key_id) IN
    /\ returned' =
          [op |-> "retrieve_outputs", selected |-> selected,
           result |-> IF \E o \in selected : ResolveCommit(o).panic
                      THEN "Panic" ELSE "Ok",
           failed |-> "none",
           mappings |-> IF \E o \in selected : ResolveCommit(o).panic THEN {}
                        ELSE {[output |-> o, commit |-> ResolveCommit(o).commit] :
                                o \in selected}]
    /\ UNCHANGED <<outputs, tx_log, last_confirmed_height, tx_log_id,
                   child_index, refresh, cancel, build, ops>>

\* the map_wallet_outputs call of a reconciliation pass: Ok with the map from
\* commitment to key identifier, or the panic of the first unwrap() that
\* meets an Err, which ends refresh_outputs with it
MapWalletOutputsCall(parent_key_id, update_all) ==
    LET selected == MapSelected(outputs, tx_log, parent_key_id, update_all) IN
    /\ returned' =
          [op |-> "refresh", selected |-> selected,
           result |-> IF \E o \in selected : ResolveCommit(o).panic
                      THEN "Panic" ELSE "Ok",
           failed |-> "none",
           mappings |-> IF \E o \in selected : ResolveCommit(o).panic THEN {}
                        ELSE {[output |-> o, commit |-> ResolveCommit(o).commit] :
                                o \in selected}]
    /\ UNCHANGED <<outputs, tx_log, last_confirmed_height, tx_log_id,
                   child_index, refresh, cancel, build, ops>>

CommitNext ==
    \/ \E show_spent \in BOOLEAN, parent_key_id \in {None, Some("A")} :
          RetrieveOutputsCall(show_spent, parent_key_id)
    \/ \E update_all \in BOOLEAN : MapWalletOutputsCall("A", update_all)

SpecCommit == CommitInit /\ [][CommitNext]_vars

\* C32: a call that resolves commitments answers, for every output it
\* selected, the stored commitment when one is present and otherwise the one
\* derived from (value, key identifier); when one of them cannot be resolved
\* (its stored commitment does not decode, or it has none and its key
\* identifier is invalid) the call ends with a DerivationError returned to the
\* caller.
C32_ResolveOrDerivationError ==
    returned.op \in {"retrieve_outputs", "refresh"} =>
        IF \E o \in returned.selected :
              \/ o.commit # None /\ ~from_hex_Ok(o.commit[1])
              \/ o.commit = None /\ ~keychain_commit_Ok(o.value, o.key_id)
        THEN returned.result = "Err" /\ returned.failed = "DerivationError"
        ELSE /\ returned.result = "Ok"
             /\ \A o \in returned.selected :
                  \E m \in returned.mappings :
                     /\ m.output = o
                     /\ m.commit = IF o.commit # None THEN o.commit[1]
                                   ELSE Commit(o.value, o.key_id)

\* ========================================= the chain advances in a pass
\* heights get_outputs_from_node may attach to a reported commitment when the
\* tip read before was height: the node answers from its chain as it is at the
\* time of the query, which may have grown by a block since get_chain_tip
AdvancedHeights(height) == {5, height, height + 1}

\* get_chain_tip, map_wallet_outputs and get_outputs_from_node as in
\* RefreshQuery, the node's chain being free to grow between its two answers
RefreshQueryAdvancing(parent_key_id, update_all) ==
    /\ refresh.pc = "idle"
    /\ MayStart
    /\ ops' = ops + 1
    /\ \/ /\ refresh' = NoRefresh
          /\ returned' = Returned("refresh", "Err", "get_chain_tip")
       \/ \E height \in TipHeights :
            LET wallet_outputs ==
                    map_wallet_outputs(outputs, tx_log, parent_key_id, update_all)
            IN
            \/ /\ refresh' = NoRefresh
               /\ returned' = [Returned("refresh", "Err", "map_wallet_outputs")
                                  EXCEPT !.height = height]
            \/ /\ refresh' = NoRefresh
               /\ returned' = [Returned("refresh", "Err", "get_outputs_from_node")
                                  EXCEPT !.height = height]
            \/ \E reported \in SUBSET DOMAIN wallet_outputs :
                 \E api_outputs \in [reported -> AdvancedHeights(height)] :
                    /\ refresh' = [pc |-> "apply",
                                   parent_key_id |-> parent_key_id,
                                   update_all |-> update_all,
                                   height |-> height,
                                   wallet_outputs |-> wallet_outputs,
                                   api_outputs |-> api_outputs,
                                   gate |-> "none", wrote |-> FALSE,
                                   started |-> ops']
                    /\ UNCHANGED returned
    /\ UNCHANGED <<outputs, tx_log, last_confirmed_height, tx_log_id,
                   child_index, cancel, build>>

\* passes, one after the other, on a wallet that holds outputs to confirm
AdvanceInit ==
    /\ ops = 0
    /\ \E l \in {FundedLedger, MinedLedger, ReceivedLedger} :
         /\ outputs = l.outputs
         /\ tx_log = l.tx_log
         /\ last_confirmed_height = l.last_confirmed_height
         /\ tx_log_id = l.tx_log_id
         /\ child_index = l.child_index
    /\ refresh = NoRefresh
    /\ cancel = NoCancel
    /\ build = NoBuild
    /\ returned = Returned("none", "none", "none")

AdvanceNext ==
    \/ \E a \in Spending, update_all \in BOOLEAN : RefreshQueryAdvancing(a, update_all)
    \/ RefreshApply
    \/ RefreshClean

SpecAdvance == AdvanceInit /\ [][AdvanceNext]_vars

\* C37: when the apply step of a pass commits, every output it has turned
\* from Unconfirmed to Unspent has a height no greater than the last
\* confirmed height the same batch saved for the account.
C37_ConfirmedNotAboveLastHeight ==
    [][ApplyCommits =>
         \A k \in DOMAIN outputs :
            (outputs[k].status = "Unconfirmed" /\ outputs'[k].status = "Unspent")
               => outputs'[k].height
                     <= last_confirmed_height'[refresh.parent_key_id]]_vars

\* ======================================== passes that keep being run
\* tip heights a node whose chain keeps growing may answer to an account whose
\* last applied pass read lch: a greater one, until the greatest modelled
GrowingTips(lch) ==
    IF \E h \in TipHeights : h > lch
    THEN {h \in TipHeights : h > lch}
    ELSE {h \in TipHeights : \A g \in TipHeights : g <= h}

\* what a node that never reports a reward candidate may answer: any of the
\* other commitments of the wallet, at any height
QuietNodes(outs) ==
    UNION {[reported -> ReportHeights] :
             reported \in SUBSET {OutputCommit(o) :
                                     o \in {x \in WalletIter(outs) :
                                               ~RewardCandidate(x)}}}

\* a wallet on which rewards are built and passes are run again and again
LiveInit ==
    /\ ops = 0
    /\ \E l \in {NewLedger, MinedLedger} :
         /\ outputs = l.outputs
         /\ tx_log = l.tx_log
         /\ last_confirmed_height = l.last_confirmed_height
         /\ tx_log_id = l.tx_log_id
         /\ child_index = l.child_index
    /\ refresh = NoRefresh
    /\ cancel = NoCancel
    /\ build = NoBuild
    /\ returned = Returned("none", "none", "none")

\* refresh_outputs run to its end without a failure: the tip read, the
\* candidates queried, the apply step and the cleanup step
LivePass(parent_key_id, update_all) ==
    /\ build.pc = "idle"
    /\ \E height \in GrowingTips(last_confirmed_height[parent_key_id]),
          node \in QuietNodes(outputs) :
         \E l \in RefreshPass(Ledger, parent_key_id, update_all, height, node, ops) :
            /\ outputs' = l.outputs
            /\ tx_log' = l.tx_log
            /\ tx_log_id' = l.tx_log_id
            /\ last_confirmed_height' = l.last_confirmed_height
            /\ returned' = [Returned("refresh", "Ok", "none")
                               EXCEPT !.height = height,
                                      !.deleted = DOMAIN outputs \ DOMAIN outputs']
    /\ UNCHANGED <<child_index, refresh, cancel, build, ops>>

LivePasses == \E a \in Spending, update_all \in BOOLEAN : LivePass(a, update_all)

LiveNext ==
    \/ LivePasses
    \/ \E a \in Accounts, foundation \in BOOLEAN, bf \in BlockFeesRequests :
          BuildWrite(a, foundation, bf)
    \/ BuildProof

\* passes keep being run, and a reward request that wrote its output ends
SpecLive ==
    LiveInit /\ [][LiveNext]_vars /\ WF_vars(LivePasses) /\ WF_vars(BuildProof)

CleanOutputs(key_id) ==
    {[CoinbaseOutput(key_id[1], key_id, reward(1, h), h) EXCEPT !.status = status] :
        h \in {0, 1, 5}, status \in {"Unconfirmed", "Unspent"}}

\* a pass that has reached its cleanup step, at any tip height from 0 to 57
CleanInit ==
    /\ ops = 1
    /\ \E held \in SUBSET {<<"A", 0>>, <<"B", 0>>} :
         \E recs \in [held -> UNION {CleanOutputs(k) : k \in held}] :
            /\ \A k \in held : recs[k] \in CleanOutputs(k)
            /\ outputs = recs
    /\ tx_log = <<>>
    /\ last_confirmed_height = NewLedger.last_confirmed_height
    /\ tx_log_id = NewLedger.tx_log_id
    /\ child_index = [a \in Accounts |-> 1]
    /\ \E height \in 0 .. 57, gate \in {"open", "stale"} :
         refresh = [NoRefresh EXCEPT !.pc = "clean", !.height = height,
                                     !.gate = gate, !.started = 1]
    /\ cancel = NoCancel
    /\ build = NoBuild
    /\ returned = Returned("none", "none", "none")

SpecClean == CleanInit /\ [][RefreshClean]_vars

\* C39: at a tip height below 50 the cleanup step returns Ok at once: it
\* opens no batch, so it cannot fail, and it deletes nothing; the difference
\* tip height - 50 is taken at tip heights of 50 and more only.
C39_NoCleanupBelowAge ==
    [][(CleanupStep /\ refresh.height < CleanupAge) =>
          /\ returned'.result = "Ok"
          /\ returned'.deleted = {}
          /\ outputs' = outputs]_vars

\* the cleanup step has returned at tip height 49 on a wallet that holds an
\* Unconfirmed reward built at height 1, which is still there
C39_Witness ==
    /\ returned.op = "refresh"
    /\ returned.result = "Ok"
    /\ returned.height = 49
    /\ returned.deleted = {}
    /\ \E o \in WalletIter(outputs) : RewardCandidate(o) /\ o.height = 1

====
